---- MODULE Spec2Model ----
(***************************************************************************)
(* The layout reconstruction engine of the CITES participant-list          *)
(* extractor (python_code/extract_pdf_data.py) and the two scripts it      *)
(* consolidates (single_column_bold_extract.py,                            *)
(* two_columns_file_extract.py).                                           *)
(*                                                                         *)
(* A Python str is a sequence of one-character strings, so that strip,     *)
(* split, isupper and the regular expression act on characters as they do  *)
(* in the source.  Python's None is the value None below, which is no      *)
(* character sequence.  Coordinates are integers; a midpoint (y0 + y1)/2   *)
(* is kept doubled (y0 + y1) and every comparison the source makes on      *)
(* midpoints, gaps and thresholds is made on the scaled integers, which    *)
(* is exact for the floats the source computes from such coordinates.      *)
(***************************************************************************)
EXTENDS Integers, Sequences, FiniteSets, TLC

VARIABLES
    pc,                 \* position of the running function
    variant,            \* "engine": extract_pdf_data.py; "legacy": the script it consolidates
    name_line,          \* split_honorific_and_person: its argument
    hon_result,         \* split_honorific_and_person: its return value
    lines_with_y,       \* collect_paragraphs_with_y: its argument
    para_result,        \* collect_paragraphs_with_y: median_gap, thresh, paras
    words,              \* _twocol_records_from_words: the page's words
    headers,            \* _twocol_records_from_words: headers
    col,                \* _twocol_records_from_words: 1 left_words, 2 right_words
    paras,              \* _twocol_records_from_words: paras of the column
    blk_idx,            \* _twocol_records_from_words: index of blk in paras
    pdf,                \* the document: its pages
    page,               \* index of the page being processed
    force_ocr,          \* extract_cites: the OCR token source is used
    layout,             \* extract_cites: layout, "auto", "one" or "two"
    mode,               \* extract_cites: mode, "" until it is set
    lines,              \* extract_singlecol_textpdf: lines of the page
    i,                  \* extract_singlecol_textpdf: i (1-based here)
    current_delegation, \* extract_singlecol_textpdf: current_delegation
    honorific,          \* extract_singlecol_textpdf: honorific
    person,             \* extract_singlecol_textpdf: person
    affiliation_lines,  \* extract_singlecol_textpdf: affiliation_lines
    stream,             \* a clusterer: the tokens it is given
    tolerance,          \* a clusterer: y_tol
    clusters,           \* a clusterer: the member lists (cur, y0, y1) of its Lines
    x_threshold,        \* the column threshold x0_thresh (--x-threshold)
    columns,            \* the column splitter: <<left_words, right_words>>
    run,                \* 1 in the first run of the engine, 2 in the second
    first_run,          \* what the first run returned
    records,            \* records / out: the Records appended so far
    ret                 \* the value returned to the caller, once returned

honVars == <<name_line, hon_result>>
paraVars == <<lines_with_y, para_result>>
twoVars == <<words, headers, col, paras, blk_idx>>
docVars == <<pdf, page, force_ocr, layout, mode>>
walkVars == <<lines, i, current_delegation, honorific, person,
              affiliation_lines>>
outVars == <<records, ret>>
clusterVars == <<stream, tolerance, clusters>>
splitVars == <<x_threshold, columns>>
runVars == <<run, first_run>>
vars ==
    <<pc, variant, honVars, paraVars, twoVars, docVars, walkVars, outVars,
      clusterVars, splitVars, runVars>>

(***************************************************************************)
(* Python values                                                           *)
(***************************************************************************)
None == <<"None">>

\* bool(x) of an Optional[str]
Truthy(x) == x # None /\ x # <<>>

\* x or ""
OrEmpty(x) == IF Truthy(x) THEN x ELSE <<>>

\* str.isspace of one character, which is also what str.strip() removes and
\* what \s of the pattern matches: the Unicode white space.  The set lists
\* every such character a string of a module can hold: tab, line feed,
\* vertical tab, form feed, carriage return, U+001C..U+001F, the space,
\* U+0085, the no-break space U+00A0 and U+1680; U+2000..U+200A, U+2028,
\* U+2029, U+202F, U+205F and U+3000 cannot be written here.
WhiteSpace ==
    {"\t", "\n", "", "\f", "\r", "", "", "",
     "", " ", "", " ", " "}

IsSpace(c) == c \in WhiteSpace

\* str.isupper of one character: the uppercase letters of Unicode 14, not
\* of ASCII alone ("É".isupper() is True).  The set lists every such
\* character a string of a module can hold: A..Z, the Latin-1 capitals, and
\* the capitals of the further blocks below; the other uppercase letters
\* (Latin Extended-A, Cyrillic and others) cannot be written here.
UpperCase ==
    {"A", "B", "C", "D", "E", "F", "G", "H", "I", "J", "K", "L", "M", "N", "O", "P",
     "Q", "R", "S", "T", "U", "V", "W", "X", "Y", "Z", "À", "Á", "Â", "Ã", "Ä", "Å",
     "Æ", "Ç", "È", "É", "Ê", "Ë", "Ì", "Í", "Î", "Ï", "Ð", "Ñ", "Ò", "Ó", "Ô", "Õ",
     "Ö", "Ø", "Ù", "Ú", "Û", "Ü", "Ý", "Þ", "Ɓ", "Ƃ", "Ƅ", "Ɔ", "Ƈ", "Ɖ", "Ɗ", "Ƌ",
     "Ǝ", "Ə", "Ɛ", "Ƒ", "Ɠ", "Ɣ", "Ɩ", "Ɨ", "Ƙ", "Ɯ", "Ɲ", "Ɵ", "Ơ", "Ƣ", "Ƥ", "Ʀ",
     "Ƨ", "Ʃ", "Ƭ", "Ʈ", "Ư", "Ʊ", "Ʋ", "Ƴ", "Ƶ", "Ʒ", "Ƹ", "Ƽ", "Ǆ", "Ǉ", "Ǌ", "Ǎ",
     "Ǐ", "Ǒ", "Ǔ", "Ǖ", "Ǘ", "Ǚ", "Ǜ", "Ǟ", "Ǡ", "Ǣ", "Ǥ", "Ǧ", "Ǩ", "Ǫ", "Ǭ", "Ǯ",
     "Ǳ", "Ǵ", "Ƕ", "Ƿ", "Ǹ", "Ǻ", "Ǽ", "Ǿ", "Ά", "Έ", "Ή", "Ί", "Ό", "Ύ", "Ώ", "Α",
     "Β", "Γ", "Δ", "Ε", "Ζ", "Η", "Θ", "Ι", "Κ", "Λ", "Μ", "Ν", "Ξ", "Ο", "Π", "Ρ",
     "Σ", "Τ", "Υ", "Φ", "Χ", "Ψ", "Ω", "Ϊ", "Ϋ", "Ϗ", "ϒ", "ϓ", "ϔ", "Ϙ", "Ϛ", "Ϝ",
     "Ϟ", "Ϡ", "Ϣ", "Ϥ", "Ϧ", "Ϩ", "Ϫ", "Ϭ", "Ϯ", "ϴ", "Ϸ", "Ϲ", "Ϻ", "Ͻ", "Ͼ", "Ͽ",
     "Ҁ", "Ҋ", "Ҍ", "Ҏ", "Ґ", "Ғ", "Ҕ", "Җ", "Ҙ", "Қ", "Ҝ", "Ҟ", "Ҡ", "Ң", "Ҥ", "Ҧ",
     "Ҩ", "Ҫ", "Ҭ", "Ү", "Ұ", "Ҳ", "Ҵ", "Ҷ", "Ҹ", "Һ", "Ҽ", "Ҿ", "Ӏ", "Ӂ", "Ӄ", "Ӆ",
     "Ӈ", "Ӊ", "Ӌ", "Ӎ", "Ӑ", "Ӓ", "Ӕ", "Ӗ", "Ә", "Ӛ", "Ӝ", "Ӟ", "Ӡ", "Ӣ", "Ӥ", "Ӧ",
     "Ө", "Ӫ", "Ӭ", "Ӯ", "Ӱ", "Ӳ", "Ӵ", "Ӷ", "Ӹ", "Ӻ", "Ӽ", "Ӿ", "Ⴀ", "Ⴁ", "Ⴂ", "Ⴃ",
     "Ⴄ", "Ⴅ", "Ⴆ", "Ⴇ", "Ⴈ", "Ⴉ", "Ⴊ", "Ⴋ", "Ⴌ", "Ⴍ", "Ⴎ", "Ⴏ", "Ⴐ", "Ⴑ", "Ⴒ", "Ⴓ",
     "Ⴔ", "Ⴕ", "Ⴖ", "Ⴗ", "Ⴘ", "Ⴙ", "Ⴚ", "Ⴛ", "Ⴜ", "Ⴝ", "Ⴞ", "Ⴟ", "Ⴠ", "Ⴡ", "Ⴢ", "Ⴣ",
     "Ⴤ", "Ⴥ", "Ⴧ", "Ⴭ", "Ꭰ", "Ꭱ", "Ꭲ", "Ꭳ", "Ꭴ", "Ꭵ", "Ꭶ", "Ꭷ", "Ꭸ", "Ꭹ", "Ꭺ", "Ꭻ",
     "Ꭼ", "Ꭽ", "Ꭾ", "Ꭿ", "Ꮀ", "Ꮁ", "Ꮂ", "Ꮃ", "Ꮄ", "Ꮅ", "Ꮆ", "Ꮇ", "Ꮈ", "Ꮉ", "Ꮊ", "Ꮋ",
     "Ꮌ", "Ꮍ", "Ꮎ", "Ꮏ", "Ꮐ", "Ꮑ", "Ꮒ", "Ꮓ", "Ꮔ", "Ꮕ", "Ꮖ", "Ꮗ", "Ꮘ", "Ꮙ", "Ꮚ", "Ꮛ",
     "Ꮜ", "Ꮝ", "Ꮞ", "Ꮟ", "Ꮠ", "Ꮡ", "Ꮢ", "Ꮣ", "Ꮤ", "Ꮥ", "Ꮦ", "Ꮧ", "Ꮨ", "Ꮩ", "Ꮪ", "Ꮫ",
     "Ꮬ", "Ꮭ", "Ꮮ", "Ꮯ", "Ꮰ", "Ꮱ", "Ꮲ", "Ꮳ", "Ꮴ", "Ꮵ", "Ꮶ", "Ꮷ", "Ꮸ", "Ꮹ", "Ꮺ", "Ꮻ",
     "Ꮼ", "Ꮽ", "Ꮾ", "Ꮿ", "Ᏸ", "Ᏹ", "Ᏺ", "Ᏻ", "Ᏼ", "Ᏽ", "Ა", "Ბ", "Გ", "Დ", "Ე", "Ვ",
     "Ზ", "Თ", "Ი", "Კ", "Ლ", "Მ", "Ნ", "Ო", "Პ", "Ჟ", "Რ", "Ს", "Ტ", "Უ", "Ფ", "Ქ",
     "Ღ", "Ყ", "Შ", "Ჩ", "Ც", "Ძ", "Წ", "Ჭ", "Ხ", "Ჯ", "Ჰ", "Ჱ", "Ჲ", "Ჳ", "Ჴ", "Ჵ",
     "Ჶ", "Ჷ", "Ჸ", "Ჹ", "Ჺ", "Ჽ", "Ჾ", "Ჿ", "Ẁ", "Ẃ", "Ẅ", "Ẇ", "Ẉ", "Ẋ", "Ẍ", "Ẏ",
     "Ẑ", "Ẓ", "Ẕ", "ẞ", "Ạ", "Ả", "Ấ", "Ầ", "Ẩ", "Ẫ", "Ậ", "Ắ", "Ằ", "Ẳ", "Ẵ", "Ặ",
     "Ẹ", "Ẻ", "Ẽ", "Ế", "Ề", "Ể", "Ễ", "Ệ", "Ỉ", "Ị", "Ọ", "Ỏ", "Ố", "Ồ", "Ổ", "Ỗ",
     "Ộ", "Ớ", "Ờ", "Ở", "Ỡ", "Ợ", "Ụ", "Ủ", "Ứ", "Ừ", "Ử", "Ữ", "Ự", "Ỳ", "Ỵ", "Ỷ",
     "Ỹ", "Ỻ", "Ỽ", "Ỿ", "Ᾰ", "Ᾱ", "Ὰ", "Ά", "Ὲ", "Έ", "Ὴ", "Ή", "Ῐ", "Ῑ", "Ὶ", "Ί",
     "Ῠ", "Ῡ", "Ὺ", "Ύ", "Ῥ", "Ὸ", "Ό", "Ὼ", "Ώ", "Ↄ", "Ⓐ", "Ⓑ", "Ⓒ", "Ⓓ", "Ⓔ", "Ⓕ",
     "Ⓖ", "Ⓗ", "Ⓘ", "Ⓙ", "Ⓚ", "Ⓛ", "Ⓜ", "Ⓝ", "Ⓞ", "Ⓟ", "Ⓠ", "Ⓡ", "Ⓢ", "Ⓣ", "Ⓤ", "Ⓥ",
     "Ⓦ", "Ⓧ", "Ⓨ", "Ⓩ", "Ⲁ", "Ⲃ", "Ⲅ", "Ⲇ", "Ⲉ", "Ⲋ", "Ⲍ", "Ⲏ", "Ⲑ", "Ⲓ", "Ⲕ", "Ⲗ",
     "Ⲙ", "Ⲛ", "Ⲝ", "Ⲟ", "Ⲡ", "Ⲣ", "Ⲥ", "Ⲧ", "Ⲩ", "Ⲫ", "Ⲭ", "Ⲯ", "Ⲱ", "Ⲳ", "Ⲵ", "Ⲷ",
     "Ⲹ", "Ⲻ", "Ⲽ", "Ⲿ", "Ⳁ", "Ⳃ", "Ⳅ", "Ⳇ", "Ⳉ", "Ⳋ", "Ⳍ", "Ⳏ", "Ⳑ", "Ⳓ", "Ⳕ", "Ⳗ",
     "Ⳙ", "Ⳛ", "Ⳝ", "Ⳟ", "Ⳡ", "Ⳣ", "Ⳬ", "Ⳮ", "Ⳳ", "Ꚁ", "Ꚃ", "Ꚅ", "Ꚇ", "Ꚉ", "Ꚋ", "Ꚍ",
     "Ꚏ", "Ꚑ", "Ꚓ", "Ꚕ", "Ꚗ", "Ꚙ", "Ꚛ", "Ꞁ", "Ꞃ", "Ꞅ", "Ꞇ", "Ꞌ", "Ɥ", "Ꞑ", "Ꞓ", "Ꞗ",
     "Ꞙ", "Ꞛ", "Ꞝ", "Ꞟ", "Ꞡ", "Ꞣ", "Ꞥ", "Ꞧ", "Ꞩ", "Ɦ", "Ɜ", "Ɡ", "Ɬ", "Ɪ", "Ʞ", "Ʇ",
     "Ʝ", "Ꭓ", "Ꞵ", "Ꞷ", "Ꞹ", "Ꞻ", "Ꞽ", "Ꞿ", "Ꟁ", "Ꟃ", "Ꞔ", "Ʂ", "Ᶎ", "Ꟈ", "Ꟊ", "Ꟑ",
     "Ꟗ", "Ꟙ", "Ꟶ"}

IsUpper(c) == c \in UpperCase

RECURSIVE LStrip(_)
LStrip(s) ==
    IF s # <<>> /\ IsSpace(Head(s)) THEN LStrip(Tail(s)) ELSE s

RECURSIVE RStrip(_)
RStrip(s) ==
    IF s # <<>> /\ IsSpace(s[Len(s)])
    THEN RStrip(SubSeq(s, 1, Len(s) - 1))
    ELSE s

\* str.strip()
Strip(s) == RStrip(LStrip(s))

\* s[k:] with k a 0-based Python index, 0 <= k
From(s, k) == SubSeq(s, k + 1, Len(s))

\* index of the first "/" of s, 0 when there is none
RECURSIVE FirstSlash(_, _)
FirstSlash(s, k) ==
    IF k > Len(s) THEN 0
    ELSE IF s[k] = "/" THEN k
    ELSE FirstSlash(s, k + 1)

\* text.split("/", 1)[0], without the strip
BeforeSlashUntrimmed(text) ==
    LET k == FirstSlash(text, 1)
    IN  IF k = 0 THEN text ELSE SubSeq(text, 1, k - 1)

\* text.split("/", 1)[0].strip()
BeforeSlashStripped(text) ==
    LET k == FirstSlash(text, 1)
    IN  Strip(IF k = 0 THEN text ELSE SubSeq(text, 1, k - 1))

\* " ".join(parts)
RECURSIVE JoinSpace(_)
JoinSpace(parts) ==
    IF parts = <<>> THEN <<>>
    ELSE IF Len(parts) = 1 THEN parts[1]
    ELSE parts[1] \o <<" ">> \o JoinSpace(Tail(parts))

\* "".join(parts)
RECURSIVE JoinEmpty(_)
JoinEmpty(parts) ==
    IF parts = <<>> THEN <<>> ELSE parts[1] \o JoinEmpty(Tail(parts))

(***************************************************************************)
(* title_match_pattern: an ordered alternation.  An alternative is a       *)
(* literal, followed by \s* when ws; the two Excellency alternatives are   *)
(* a literal followed by an optional group  \.\s*(?: inner alternation ).  *)
(***************************************************************************)
Alt(l, w) == [lit |-> l, ws |-> w, inner |-> <<>>]

Compound(l, in) == [lit |-> l, ws |-> FALSE, inner |-> in]

he_inner_alternatives ==
    << Alt(<<"M", "s", ".">>, TRUE),
       Alt(<<"M", "r", ".">>, TRUE),
       Alt(<<"M", "s", " ">>, FALSE),
       Alt(<<"M", "r", " ">>, FALSE),
       Alt(<<"S", "r", "a", " ">>, FALSE),
       Alt(<<"S", "r", " ">>, FALSE),
       Alt(<<"S", "r", "a", ".">>, TRUE),
       Alt(<<"M", "m", "e">>, FALSE),
       Alt(<<"S", "r", ".">>, TRUE),
       Alt(<<"M", "s", "g", "r", ".">>, TRUE) >>

se_inner_alternatives ==
    << Alt(<<"M", "s", ".">>, TRUE),
       Alt(<<"M", "r", ".">>, TRUE),
       Alt(<<"M", "m", "e">>, FALSE),
       Alt(<<"M", "r">>, FALSE),
       Alt(<<"M", "s">>, FALSE),
       Alt(<<"D", "r">>, FALSE),
       Alt(<<"M", "s", "g", "r", ".">>, TRUE),
       Alt(<<"M", ".">>, TRUE),
       Alt(<<"M", "s", " ">>, FALSE),
       Alt(<<"M", "r", " ">>, FALSE),
       Alt(<<"S", "r", "a", " ">>, FALSE),
       Alt(<<"S", "r", " ">>, FALSE),
       Alt(<<"M", " ">>, FALSE),
       Alt(<<"S", "r", "a", ".">>, TRUE),
       Alt(<<"S", "r", ".">>, TRUE) >>

title_alternatives ==
    << Alt(<<"M", "r", ".">>, TRUE),
       Alt(<<"H", ".", "R", ".", "H", ".">>, TRUE),
       Alt(<<"M", "x", ".">>, TRUE),
       Alt(<<"S", "t", ".">>, FALSE),
       Alt(<<"M", "i", "s", "s", " ">>, FALSE),
       Alt(<<"M", "l", "l", "e", " ">>, FALSE),
       Alt(<<"M", "i", "n", "e", " ">>, FALSE),
       Alt(<<"H", ".", "H", ".">>, TRUE),
       Alt(<<"I", "n", "d", ".">>, TRUE),
       Alt(<<"H", "i", "s", " ">>, FALSE),
       Alt(<<"I", "n", "d", " ">>, FALSE),
       Alt(<<"M", "s", " ">>, FALSE),
       Alt(<<"M", "r", " ">>, FALSE),
       Alt(<<"S", "r", "a", " ">>, FALSE),
       Alt(<<"S", "r", " ">>, FALSE),
       Alt(<<"M", " ">>, FALSE),
       Alt(<<"O", "n", " ">>, FALSE),
       Alt(<<"M", " ">>, FALSE),
       Alt(<<"F", "r", " ">>, FALSE),
       Alt(<<"H", ".", "O", ".">>, TRUE),
       Alt(<<"R", "e", "v", " ">>, FALSE),
       Alt(<<"M", "m", "e", " ">>, FALSE),
       Alt(<<"S", "r", " ">>, FALSE),
       Alt(<<"M", "s", "g", "r", " ">>, FALSE),
       Alt(<<"O", "n", ".">>, TRUE),
       Alt(<<"F", "r", ".">>, TRUE),
       Alt(<<"R", "e", "v", ".">>, TRUE),
       Compound(<<"H", ".", "E">>, he_inner_alternatives),
       Alt(<<"M", "s", "g", "r", ".">>, TRUE),
       Alt(<<"M", "r", "s", ".">>, TRUE),
       Alt(<<"S", "r", "a", ".">>, TRUE),
       Alt(<<"S", "r", ".">>, TRUE),
       Alt(<<"M", "s", ".">>, TRUE),
       Alt(<<"D", "r", ".">>, TRUE),
       Alt(<<"P", "r", "o", "f", ".">>, TRUE),
       Alt(<<"M", ".">>, TRUE),
       Alt(<<"M", "m", "e">>, FALSE),
       Alt(<<"M", "s">>, FALSE),
       Compound(<<"S", ".", "E">>, se_inner_alternatives) >>

\* the literal l stands in s at position p (1-based)
LitAt(s, p, l) ==
    /\ p + Len(l) - 1 <= Len(s)
    /\ \A j \in 1..Len(l) : s[p + j - 1] = l[j]

\* \s* from position p, greedy: the first position that holds no white space
RECURSIVE SkipSpace(_, _)
SkipSpace(s, p) ==
    IF p <= Len(s) /\ IsSpace(s[p]) THEN SkipSpace(s, p + 1) ELSE p

\* One simple alternative tried at position p: the position after its match,
\* 0 when it does not match.
AltEnd(s, p, a) ==
    IF LitAt(s, p, a.lit)
    THEN IF a.ws THEN SkipSpace(s, p + Len(a.lit)) ELSE p + Len(a.lit)
    ELSE 0

\* An alternation of simple alternatives tried in order at position p: the
\* first that matches decides (nothing follows it in the pattern, so the
\* engine never comes back for a later one).
RECURSIVE FirstAltEnd(_, _, _, _)
FirstAltEnd(s, p, alts, k) ==
    IF k > Len(alts) THEN 0
    ELSE IF AltEnd(s, p, alts[k]) # 0 THEN AltEnd(s, p, alts[k])
    ELSE FirstAltEnd(s, p, alts, k + 1)

\* H\.E(?:\.\s*(?:...))? : the optional group is taken when it matches.  Every
\* inner alternative starts with a letter, so giving back white space of \s*
\* never lets one match, and when none matches the group matches empty.
CompoundEnd(s, p, a) ==
    IF ~LitAt(s, p, a.lit) THEN 0
    ELSE LET e == p + Len(a.lit)
         IN  IF e <= Len(s) /\ s[e] = "."
             THEN LET g == FirstAltEnd(s, SkipSpace(s, e + 1), a.inner, 1)
                  IN  IF g # 0 THEN g ELSE e
             ELSE e

TopAltEnd(s, a) ==
    IF a.inner = <<>> THEN AltEnd(s, 1, a) ELSE CompoundEnd(s, 1, a)

RECURSIVE FirstTopEnd(_, _)
FirstTopEnd(s, k) ==
    IF k > Len(title_alternatives) THEN 0
    ELSE IF TopAltEnd(s, title_alternatives[k]) # 0
         THEN TopAltEnd(s, title_alternatives[k])
    ELSE FirstTopEnd(s, k + 1)

\* title_match_pattern.match(s): len(m.group()) of the match, 0 for no match
\* (no alternative matches the empty string)
title_match_pattern_match(s) ==
    LET e == FirstTopEnd(s, 1) IN IF e = 0 THEN 0 ELSE e - 1

\* split_honorific_and_person with the two .strip() calls on the parts left out
split_honorific_and_person_unstripped(line) ==
    LET s == Strip(IF line = None THEN <<>> ELSE line)
        n == title_match_pattern_match(s)
    IN  IF n > 0 THEN <<SubSeq(s, 1, n), From(s, n)>> ELSE <<<<>>, s>>

split_honorific_and_person(line) ==
    LET s == Strip(IF line = None THEN <<>> ELSE line)
        n == title_match_pattern_match(s)
    IN  IF n > 0
        THEN <<Strip(SubSeq(s, 1, n)), Strip(From(s, n))>>
        ELSE <<<<>>, s>>

(***************************************************************************)
(* Tokens, Lines, Paragraphs.  A word is [text, x0, top]; a char is        *)
(* [text, x0, top, bold], bold standing for 'Bold' in fontname.  A Line    *)
(* of words is [text, y0, y1]; a Line of chars has is_bold too.  A         *)
(* Paragraph is [lines, y0, y1], lines being the texts of its Lines.       *)
(***************************************************************************)
\* default y_tol = 3.0 of both clusterers
y_tol == 3

\* default para_factor = 1.5 = para_factor_num / para_factor_den
para_factor_num == 3

para_factor_den == 2

\* default x0_thresh = 260.0
x0_thresh_default == 260

\* a <= b under a sort key: (top, x0) of sorted(...), x0 of list.sort(...),
\* the midpoint of headers.sort(...), the number itself for sorted(diffs)
KeyLeq(key, a, b) ==
    CASE key = "top_x0" -> a.top < b.top \/ (a.top = b.top /\ a.x0 <= b.x0)
      [] key = "x0" -> a.x0 <= b.x0
      [] key = "mid" -> a.mid2 <= b.mid2
      [] key = "value" -> a <= b

\* Python's sort is stable: an element goes after every element whose key is
\* not greater than its own.
RECURSIVE InsertSorted(_, _, _)
InsertSorted(sorted, w, key) ==
    IF sorted = <<>> THEN <<w>>
    ELSE IF KeyLeq(key, sorted[Len(sorted)], w) THEN Append(sorted, w)
    ELSE Append(InsertSorted(SubSeq(sorted, 1, Len(sorted) - 1), w, key),
                sorted[Len(sorted)])

RECURSIVE SortedBy(_, _)
SortedBy(seq, key) ==
    IF seq = <<>> THEN <<>>
    ELSE InsertSorted(SortedBy(SubSeq(seq, 1, Len(seq) - 1), key),
                      seq[Len(seq)], key)

Texts(tokens) == [j \in 1..Len(tokens) |-> tokens[j].text]

AnyBold(tokens) == \E j \in 1..Len(tokens) : tokens[j].bold

Abs(n) == IF n < 0 THEN -n ELSE n

\* the clustering loop with < y_tol in place of <= y_tol
RECURSIVE ClusterByTopStrict(_, _, _, _, _, _)
ClusterByTopStrict(rest, cur, y0, y1, tol, groups) ==
    IF rest = <<>>
    THEN Append(groups, [tokens |-> cur, y0 |-> y0, y1 |-> y1])
    ELSE LET t == Head(rest)
         IN  IF Abs(t.top - y1) < tol
             THEN ClusterByTopStrict(Tail(rest), Append(cur, t), y0, t.top,
                                     tol, groups)
             ELSE ClusterByTopStrict(Tail(rest), <<t>>, t.top, t.top, tol,
                                     Append(groups,
                                            [tokens |-> cur, y0 |-> y0,
                                             y1 |-> y1]))

\* The clustering loop shared by both clusterers: the accumulator cur with
\* its y0, y1, the tokens left, the closed groups so far; the last
\* accumulator is flushed after the loop.
RECURSIVE ClusterByTop(_, _, _, _, _, _)
ClusterByTop(rest, cur, y0, y1, tol, groups) ==
    IF rest = <<>>
    THEN Append(groups, [tokens |-> cur, y0 |-> y0, y1 |-> y1])
    ELSE LET t == Head(rest)
         IN  IF Abs(t.top - y1) <= tol
             THEN ClusterByTop(Tail(rest), Append(cur, t), y0, t.top, tol,
                               groups)
             ELSE ClusterByTop(Tail(rest), <<t>>, t.top, t.top, tol,
                               Append(groups,
                                      [tokens |-> cur, y0 |-> y0, y1 |-> y1]))

WordLine(g) ==
    [text |-> JoinSpace(Texts(SortedBy(g.tokens, "x0"))),
     y0 |-> g.y0, y1 |-> g.y1]

group_words_to_lines_with_y(ws, tol) ==
    IF ws = <<>> THEN <<>>
    ELSE LET words_sorted == SortedBy(ws, "top_x0")
             groups == ClusterByTop(Tail(words_sorted),
                                    <<Head(words_sorted)>>,
                                    Head(words_sorted).top,
                                    Head(words_sorted).top, tol, <<>>)
         IN  [j \in 1..Len(groups) |-> WordLine(groups[j])]

\* the Line of characters put together in (top, x0) order, without the
\* sort by x0
CharLineInClusterOrder(g) ==
    [text |-> Strip(JoinEmpty(Texts(g.tokens))),
     y0 |-> g.y0, y1 |-> g.y1, is_bold |-> AnyBold(g.tokens)]

CharLine(g) ==
    [text |-> Strip(JoinEmpty(Texts(SortedBy(g.tokens, "x0")))),
     y0 |-> g.y0, y1 |-> g.y1, is_bold |-> AnyBold(g.tokens)]

group_chars_to_lines(chars, tol) ==
    IF chars = <<>> THEN <<>>
    ELSE LET chars_sorted == SortedBy(chars, "top_x0")
             groups == ClusterByTop(Tail(chars_sorted),
                                    <<Head(chars_sorted)>>,
                                    Head(chars_sorted).top,
                                    Head(chars_sorted).top, tol, <<>>)
         IN  [j \in 1..Len(groups) |-> CharLine(groups[j])]

\* mids, doubled: 2 * ((y0 + y1) / 2.0)
Mids2(lines_in) ==
    [j \in 1..Len(lines_in) |-> lines_in[j].y0 + lines_in[j].y1]

\* diffs, doubled
Diffs2(lines_in) ==
    LET mids == Mids2(lines_in)
    IN  [j \in 1..(Len(mids) - 1) |-> mids[j + 1] - mids[j]]

\* median_gap taken as the lower median: sorted(diffs)[(len(diffs) - 1) // 2]
MedianGap2Lower(lines_in) ==
    LET diffs == Diffs2(lines_in)
    IN  SortedBy(diffs, "value")[((Len(diffs) - 1) \div 2) + 1]

\* median_gap, doubled: sorted(diffs)[len(diffs) // 2], for at least one gap
MedianGap2(lines_in) ==
    LET diffs == Diffs2(lines_in)
    IN  SortedBy(diffs, "value")[(Len(diffs) \div 2) + 1]

\* thresh with the factor 1 / para_factor_den, which is below 1
Thresh2DenBelowOne(median2, num) == median2

\* thresh = median_gap * para_factor, scaled by 2 * den:
\* 2 * den * thresh = (2 * median_gap) * num
Thresh2Den(median2, num) == median2 * num

\* the test with >= thresh in place of > thresh
ReachesThresh(gap2, thresh2den, den) == gap2 * den >= thresh2den

\* (mid - prev_mid) > thresh, both sides scaled by 2 * den
ExceedsThresh(gap2, thresh2den, den) == gap2 * den > thresh2den

\* the for loop with block_y1 set by the first Line of a block only
RECURSIVE ParagraphLoopKeepingY1(_, _, _, _, _, _, _, _)
ParagraphLoopKeepingY1(lines_in, j, thresh2den, den, cur_lines, y0, y1, out) ==
    IF j > Len(lines_in)
    THEN IF cur_lines # <<>>
         THEN Append(out, [lines |-> cur_lines, y0 |-> y0,
                           y1 |-> y1])
         ELSE out
    ELSE LET ln == lines_in[j]
             split == /\ j > 1
                      /\ ExceedsThresh(Diffs2(lines_in)[j - 1], thresh2den, den)
                      /\ cur_lines # <<>>
         IN  IF split
             THEN ParagraphLoopKeepingY1(lines_in, j + 1, thresh2den, den,
                                         <<ln.text>>, ln.y0, ln.y1,
                                         Append(out,
                                                [lines |-> cur_lines,
                                                 y0 |-> y0, y1 |-> y1]))
             ELSE ParagraphLoopKeepingY1(lines_in, j + 1, thresh2den, den,
                                         Append(cur_lines, ln.text),
                                         IF cur_lines = <<>> THEN ln.y0 ELSE y0,
                                         IF cur_lines = <<>> THEN ln.y1 ELSE y1,
                                         out)

\* The for loop of collect_paragraphs_with_y from Line j on: cur_lines with
\* y0, y1 for block_y0, block_y1 (prev_mid is the midpoint of Line j - 1).
RECURSIVE ParagraphLoop(_, _, _, _, _, _, _, _)
ParagraphLoop(lines_in, j, thresh2den, den, cur_lines, y0, y1, out) ==
    IF j > Len(lines_in)
    THEN IF cur_lines # <<>>
         THEN Append(out, [lines |-> cur_lines, y0 |-> y0,
                           y1 |-> y1])
         ELSE out
    ELSE LET ln == lines_in[j]
             split == /\ j > 1
                      /\ ExceedsThresh(Diffs2(lines_in)[j - 1], thresh2den, den)
                      /\ cur_lines # <<>>
         IN  IF split
             THEN ParagraphLoop(lines_in, j + 1, thresh2den, den,
                                <<ln.text>>, ln.y0, ln.y1,
                                Append(out,
                                       [lines |-> cur_lines, y0 |-> y0,
                                        y1 |-> y1]))
             ELSE ParagraphLoop(lines_in, j + 1, thresh2den, den,
                                Append(cur_lines, ln.text),
                                IF cur_lines = <<>> THEN ln.y0 ELSE y0,
                                ln.y1, out)

collect_paragraphs_with_y(lines_in, num, den) ==
    IF lines_in = <<>> THEN <<>>
    ELSE IF Len(lines_in) = 1
    THEN << [lines |-> <<lines_in[1].text>>, y0 |-> lines_in[1].y0,
             y1 |-> lines_in[1].y1] >>
    ELSE ParagraphLoop(lines_in, 1,
                       Thresh2Den(MedianGap2(lines_in), num), den,
                       <<>>, 0, 0, <<>>)

\* collect_paragraphs_with_y of two_columns_file_extract.py: no early return
\* for a single Line, median_gap is 0 when there is no gap
legacy_collect_paragraphs_with_y(lines_in, num, den) ==
    IF lines_in = <<>> THEN <<>>
    ELSE ParagraphLoop(lines_in, 1,
                       Thresh2Den(IF Len(lines_in) >= 2
                                  THEN MedianGap2(lines_in) ELSE 0, num),
                       den, <<>>, 0, 0, <<>>)

\* the classifier without the slash
is_all_caps_header_without_slash(text) ==
    IF text = None \/ text = <<>> THEN FALSE
    ELSE LET s == Strip(text)
         IN  s # <<>> /\ \A j \in 1..Len(s) : IsUpper(s[j]) \/ s[j] = " "

is_all_caps_header(text) ==
    IF text = None \/ text = <<>> THEN FALSE
    ELSE LET s == Strip(text)
         IN  s # <<>> /\ \A j \in 1..Len(s) : IsUpper(s[j]) \/ s[j] \in {" ", "/"}

(***************************************************************************)
(* The two-column strategy on one page.  variant "engine" is               *)
(* _twocol_records_from_words of extract_pdf_data.py, variant "legacy"     *)
(* the page body of extract_by_blank_lines of two_columns_file_extract.py. *)
(* A Header is [mid2, name], mid2 the doubled midpoint.                    *)
(***************************************************************************)
\* the header test without len(blk) == 1
IsHeaderParaAnyLength(p) == is_all_caps_header(p.lines[1])

IsHeaderPara(p) == Len(p.lines) = 1 /\ is_all_caps_header(p.lines[1])

RECURSIVE HeadersOfParas(_)
HeadersOfParas(full_paras) ==
    IF full_paras = <<>> THEN <<>>
    ELSE LET p == Head(full_paras)
         IN  IF IsHeaderPara(p)
             THEN <<[mid2 |-> p.y0 + p.y1,
                     name |-> BeforeSlashStripped(p.lines[1])]>>
                  \o HeadersOfParas(Tail(full_paras))
             ELSE HeadersOfParas(Tail(full_paras))

\* the headers list of a page: detected on the Paragraphs of all its words
page_headers(page_words) ==
    LET full_lines == group_words_to_lines_with_y(page_words, y_tol)
        full_paras == collect_paragraphs_with_y(full_lines, para_factor_num,
                                                para_factor_den)
    IN  SortedBy(HeadersOfParas(full_paras), "mid")

\* the scan with m < mid in place of m <= mid
RECURSIVE HeaderScanStrict(_, _, _, _)
HeaderScanStrict(hdrs, j, mid2, ans) ==
    IF j > Len(hdrs) THEN ans
    ELSE IF hdrs[j].mid2 < mid2
         THEN HeaderScanStrict(hdrs, j + 1, mid2, hdrs[j].name)
    ELSE ans

\* the scan of header_for_mid / find_delegation from entry j on, ans so far
RECURSIVE HeaderScan(_, _, _, _)
HeaderScan(hdrs, j, mid2, ans) ==
    IF j > Len(hdrs) THEN ans
    ELSE IF hdrs[j].mid2 <= mid2 THEN HeaderScan(hdrs, j + 1, mid2, hdrs[j].name)
    ELSE ans

header_for_mid(hdrs, mid2) == HeaderScan(hdrs, 1, mid2, None)

\* left_words with <= x0_thresh in place of < x0_thresh
left_words_with_threshold(page_words, x0_thresh) ==
    LET IsLeft(w) == w.x0 <= x0_thresh
    IN  SortedBy(SelectSeq(page_words, IsLeft), "top_x0")

left_words(page_words, x0_thresh) ==
    LET IsLeft(w) == w.x0 < x0_thresh
    IN  SortedBy(SelectSeq(page_words, IsLeft), "top_x0")

right_words(page_words, x0_thresh) ==
    LET IsRight(w) == w.x0 >= x0_thresh
    IN  SortedBy(SelectSeq(page_words, IsRight), "top_x0")

\* lined, paras of one column
column_paras(col_words) ==
    collect_paragraphs_with_y(group_words_to_lines_with_y(col_words, y_tol),
                              para_factor_num, para_factor_den)

StripEach(texts) == [j \in 1..Len(texts) |-> Strip(texts[j])]

\* affiliation of a block: the engine strips each Line before joining
block_affiliation(blk, v) ==
    IF v = "engine"
    THEN Strip(JoinSpace(StripEach(Tail(blk))))
    ELSE Strip(JoinSpace(Tail(blk)))

\* delegation of a block: the engine turns no header into "", the legacy
\* script keeps find_delegation's None
block_delegation(hdrs, mid2, v) ==
    IF v = "engine"
    THEN OrEmpty(header_for_mid(hdrs, mid2))
    ELSE header_for_mid(hdrs, mid2)

\* the Record of one non-header block
block_record(p, hdrs, v) ==
    LET hp == split_honorific_and_person(Strip(p.lines[1]))
    IN  [Delegation |-> block_delegation(hdrs, p.y0 + p.y1, v),
         Honorific |-> hp[1],
         Person_Name |-> hp[2],
         Affiliation |-> block_affiliation(p.lines, v)]

RECURSIVE RecordsOfParas(_, _, _)
RecordsOfParas(ps, hdrs, v) ==
    IF ps = <<>> THEN <<>>
    ELSE IF IsHeaderPara(Head(ps)) \/ Head(ps).lines = <<>>
    THEN RecordsOfParas(Tail(ps), hdrs, v)
    ELSE <<block_record(Head(ps), hdrs, v)>>
         \o RecordsOfParas(Tail(ps), hdrs, v)

\* the Records of the right column put before those of the left column
twocol_records_right_column_first(page_words, x0_thresh, v) ==
    LET hdrs == page_headers(page_words)
    IN  RecordsOfParas(column_paras(right_words(page_words, x0_thresh)), hdrs, v)
        \o RecordsOfParas(column_paras(left_words(page_words, x0_thresh)),
                          hdrs, v)

twocol_records_from_words(page_words, x0_thresh, v) ==
    LET hdrs == page_headers(page_words)
    IN  RecordsOfParas(column_paras(left_words(page_words, x0_thresh)), hdrs, v)
        \o RecordsOfParas(column_paras(right_words(page_words, x0_thresh)),
                          hdrs, v)

(***************************************************************************)
(* Values of the variables a specification does not use                    *)
(***************************************************************************)
NotReturned == [returned |-> FALSE, value |-> <<>>]

Returned(v) == [returned |-> TRUE, value |-> v]

IdleHon == name_line = <<>> /\ hon_result = <<>>

IdlePara == lines_with_y = <<>> /\ para_result = <<>>

IdleTwo ==
    words = <<>> /\ headers = <<>> /\ col = 0 /\ paras = <<>> /\ blk_idx = 0

IdleDoc ==
    pdf = <<>> /\ page = 0 /\ force_ocr = FALSE /\ layout = "auto" /\ mode = ""

IdleWalk ==
    /\ lines = <<>> /\ i = 0 /\ current_delegation = None
    /\ honorific = <<>> /\ person = <<>> /\ affiliation_lines = <<>>

IdleOut == records = <<>> /\ ret = NotReturned

IdleCluster == stream = <<>> /\ tolerance = 0 /\ clusters = <<>>

IdleSplit == x_threshold = x0_thresh_default /\ columns = <<>>

IdleRun == run = 1 /\ first_run = NotReturned

(***************************************************************************)
(* SpecHon: split_honorific_and_person applied to a name line.             *)
(* A name line is  lead . excellency . title . punctuation . rest.         *)
(***************************************************************************)
MaxSpaces == 2

Spaces(n) == [j \in 1..n |-> " "]

HonLeads == {<<>>, <<" ">>}

HonExcellencies ==
    {<<>>} \cup
    {b \o d \o Spaces(n) :
        b \in {<<"H", ".", "E">>, <<"S", ".", "E">>},
        d \in {<<>>, <<".">>},
        n \in 0..MaxSpaces}

HonTitles ==
    {<<>>, <<"M", "r">>, <<"M", "s">>, <<"M", "r", "s">>,
     <<"M", "s", "g", "r">>, <<"M", "m", "e">>, <<"M">>, <<"D", "r">>,
     <<"S", "r">>, <<"S", "r", "a">>, <<"P", "r", "o", "f">>,
     <<"M", "i", "s", "s">>, <<"S", "t">>}

HonPuncts ==
    {d \o Spaces(n) : d \in {<<>>, <<".">>}, n \in 0..MaxSpaces}
    \cup {<<"\t">>}

JohnSmith == <<"J", "o", "h", "n", " ", "S", "m", "i", "t", "h">>

HonRests == {<<>>, JohnSmith, <<"g", "r">>}

NameLines ==
    {a \o b \o c \o d \o e :
        a \in HonLeads, b \in HonExcellencies, c \in HonTitles,
        d \in HonPuncts, e \in HonRests}

InitHon ==
    /\ pc = "hon_call"
    /\ IdleCluster /\ IdleSplit /\ IdleRun
    /\ variant = "engine"
    /\ name_line \in NameLines
    /\ hon_result = <<>>
    /\ IdlePara /\ IdleTwo /\ IdleDoc /\ IdleWalk /\ IdleOut

SplitHonorific ==
    /\ pc = "hon_call"
    /\ hon_result' = split_honorific_and_person(name_line)
    /\ pc' = "hon_done"
    /\ UNCHANGED <<variant, clusterVars, splitVars, runVars, name_line, paraVars, twoVars, docVars, walkVars,
                   outVars>>

NextHon == SplitHonorific

SpecHon == InitHon /\ [][NextHon]_vars

(***************************************************************************)
(* The listed fragments, as a language: t is a listed fragment when it is  *)
(* the literal of an alternative, followed by white space where the        *)
(* alternative ends in \s*; or an Excellency literal alone; or an          *)
(* Excellency literal, a dot, white space and a fragment of its inner      *)
(* list.                                                                   *)
(***************************************************************************)
AllSpace(t) == \A j \in 1..Len(t) : IsSpace(t[j])

IsSimpleFragment(t, a) ==
    /\ LitAt(t, 1, a.lit)
    /\ IF a.ws THEN AllSpace(From(t, Len(a.lit))) ELSE Len(t) = Len(a.lit)

IsCompoundFragment(t, a) ==
    \/ t = a.lit
    \/ /\ LitAt(t, 1, a.lit \o <<".">>)
       /\ \E m \in (Len(a.lit) + 1)..Len(t) :
            /\ AllSpace(SubSeq(t, Len(a.lit) + 2, m))
            /\ \E j \in 1..Len(a.inner) :
                 IsSimpleFragment(From(t, m), a.inner[j])

IsListedFragment(t) ==
    \E j \in 1..Len(title_alternatives) :
        LET a == title_alternatives[j]
        IN  IF a.inner = <<>> THEN IsSimpleFragment(t, a)
            ELSE IsCompoundFragment(t, a)

\* the lengths of the prefixes of s that are listed fragments
FragmentLens(s) == {n \in 1..Len(s) : IsListedFragment(SubSeq(s, 1, n))}

\* C7: for every name line that begins with a listed honorific fragment, the
\* honorific returned is the longest listed fragment that prefixes the
\* trimmed line (compared after trimming), never a shorter one.
HonorificIsLongestFragment ==
    pc = "hon_done" =>
        \A n \in FragmentLens(Strip(name_line)) :
            Len(Strip(SubSeq(Strip(name_line), 1, n))) <= Len(hon_result[1])

\* C8: when a listed fragment prefixes the trimmed name line, the result is
\* (that fragment trimmed, the rest of the line after it trimmed) for one such
\* fragment; otherwise it is ("", the trimmed line); "Mr. John Smith" gives
\* ("Mr.", "John Smith") and "John Smith" gives ("", "John Smith").
HonorificSplitResult ==
    pc = "hon_done" =>
        LET s == Strip(name_line)
        IN  /\ IF FragmentLens(s) # {}
               THEN \E n \in FragmentLens(s) :
                        hon_result = <<Strip(SubSeq(s, 1, n)), Strip(From(s, n))>>
               ELSE hon_result = <<<<>>, s>>
            /\ s = <<"M", "r", ".", " ">> \o JohnSmith
                    => hon_result = <<<<"M", "r", ".">>, JohnSmith>>
            /\ s = JohnSmith => hon_result = <<<<>>, JohnSmith>>

\* C8 witness: "Mr. John Smith", given with a leading space, has been split
HonorificSplitWitness ==
    /\ pc = "hon_done"
    /\ name_line = <<" ", "M", "r", ".", " ">> \o JohnSmith
    /\ hon_result = <<<<"M", "r", ".">>, JohnSmith>>

(***************************************************************************)
(* SpecPara: collect_paragraphs_with_y applied to the Lines of a stream.   *)
(* The Lines are as a clusterer leaves them: y0 <= y1 within a Line, and   *)
(* the next Line starts more than y_tol below the end of the previous one. *)
(***************************************************************************)
MaxParaLines == 4

MaxGap == 4

MaxSpread == 1

LineNames == <<"a", "b", "c", "d", "e", "f", "g", "h">>

\* Line j starts y_tol + gaps[j - 1] below the end of Line j - 1
RECURSIVE BuildLines(_, _, _)
BuildLines(spreads, gaps, n) ==
    IF n = 0 THEN <<>>
    ELSE LET before == BuildLines(spreads, gaps, n - 1)
             top == IF n = 1 THEN 0
                    ELSE before[n - 1].y1 + y_tol + gaps[n - 1]
         IN  Append(before, [text |-> <<LineNames[n]>>, y0 |-> top,
                             y1 |-> top + spreads[n]])

ParaInputs ==
    UNION {{BuildLines(sp, gp, n) :
                sp \in [1..n -> 0..MaxSpread],
                gp \in [1..(n - 1) -> 1..MaxGap]} : n \in 0..MaxParaLines}

InitPara ==
    /\ pc = "para_call"
    /\ IdleCluster /\ IdleSplit /\ IdleRun
    /\ variant \in {"engine", "legacy"}
    /\ lines_with_y \in ParaInputs
    /\ para_result = <<>>
    /\ IdleHon /\ IdleTwo /\ IdleDoc /\ IdleWalk /\ IdleOut

CollectParagraphs ==
    /\ pc = "para_call"
    /\ para_result' =
         LET has_gaps == Len(lines_with_y) >= 2
             median2 == IF has_gaps THEN MedianGap2(lines_with_y) ELSE 0
         IN  [has_gaps |-> has_gaps,
              median_gap2 |-> median2,
              thresh2den |-> Thresh2Den(median2, para_factor_num),
              paras |-> IF variant = "engine"
                        THEN collect_paragraphs_with_y(lines_with_y,
                                                       para_factor_num,
                                                       para_factor_den)
                        ELSE legacy_collect_paragraphs_with_y(
                                 lines_with_y, para_factor_num,
                                 para_factor_den)]
    /\ pc' = "para_done"
    /\ UNCHANGED <<variant, clusterVars, splitVars, runVars, lines_with_y, honVars, twoVars, docVars, walkVars,
                   outVars>>

NextPara == CollectParagraphs

SpecPara == InitPara /\ [][NextPara]_vars

\* m stands at 0-based index r of the gaps in ascending order: at most r gaps
\* are smaller, and at least r + 1 are not greater
IsGapOfRank(gaps, m, r) ==
    /\ \E j \in 1..Len(gaps) : gaps[j] = m
    /\ Cardinality({j \in 1..Len(gaps) : gaps[j] < m}) <= r
    /\ Cardinality({j \in 1..Len(gaps) : gaps[j] <= m}) >= r + 1

\* C9, as stated: with at least two Lines the reference spacing is the median
\* of the midpoint gaps, the lower median when their number is even, and the
\* threshold is that median times the paragraph factor.
MedianIsLowerMedian ==
    (pc = "para_done" /\ para_result.has_gaps) =>
        LET gaps == Diffs2(lines_with_y)
        IN  /\ IsGapOfRank(gaps, para_result.median_gap2,
                           (Len(gaps) - 1) \div 2)
            /\ para_result.thresh2den
                 = para_result.median_gap2 * para_factor_num

\* C9, amended: with at least two Lines the reference spacing is the gap at
\* index floor(g / 2) of the g gaps in ascending order, which is the median
\* for odd g and the upper median for even g, and the threshold is that gap
\* times the paragraph factor.
MedianIsUpperMedian ==
    (pc = "para_done" /\ para_result.has_gaps) =>
        LET gaps == Diffs2(lines_with_y)
        IN  /\ IsGapOfRank(gaps, para_result.median_gap2, Len(gaps) \div 2)
            /\ para_result.thresh2den
                 = para_result.median_gap2 * para_factor_num

\* C9 witness: three Lines, two different gaps, the greater one was taken
MedianWitness ==
    /\ pc = "para_done"
    /\ Len(lines_with_y) = 3
    /\ Diffs2(lines_with_y)[1] < Diffs2(lines_with_y)[2]
    /\ para_result.median_gap2 = Diffs2(lines_with_y)[2]

(***************************************************************************)
(* SpecTwo: the two-column strategy on one page of words.                  *)
(*                                                                         *)
(* A page is a stack of blocks.  A block is a header line or a person      *)
(* line, followed by nlines - 1 affiliation lines LinePitch apart, in the  *)
(* left column, the right column, or beside the previous block (in the     *)
(* other column, starting at the same top).  A block that is not beside    *)
(* starts BlockGap below the lowest line placed so far.  Two pages are     *)
(* given word by word: the roster page of the specification's scenario,    *)
(* and a page where the midpoint of a right-column block falls exactly on  *)
(* a header.                                                               *)
(***************************************************************************)
MaxBlocks == 3

LongBlock == 4

LinePitch == 10

BlockGap == 30

LeftX0 == 50

WordPitch == 30

Word(t, x, y) == [text |-> t, x0 |-> x, top |-> y]

HeaderText == <<"A", "B">>

TitleText == <<"M", "r", ".">>

NameText == <<"J", "o">>

AffiliationText == <<"D", "p">>

\* the header of block n of a page: the headers of a page differ in name
HeaderNames ==
    << HeaderText, <<"C">>, <<"D", "/", "E">>, <<"F">>, <<"G", "H">> >>

HeaderTextOf(n) == HeaderNames[((n - 1) % Len(HeaderNames)) + 1]

BlockShapes ==
    [kind : {"header", "person"}, nlines : {1, LongBlock},
     place : {"L", "R", "beside"}]

\* the column of block n: "beside" is the column opposite to the previous one
RECURSIVE BlockColumn(_, _)
BlockColumn(blocks, n) ==
    IF blocks[n].place # "beside" THEN blocks[n].place
    ELSE IF BlockColumn(blocks, n - 1) = "L" THEN "R" ELSE "L"

\* the top of the last line of block n
RECURSIVE BlockStart(_, _)
BlockEnd(blocks, n) == BlockStart(blocks, n) + (blocks[n].nlines - 1) * LinePitch

RECURSIVE LowestLine(_, _)
LowestLine(blocks, n) ==
    IF n = 1 THEN BlockEnd(blocks, 1)
    ELSE IF BlockEnd(blocks, n) > LowestLine(blocks, n - 1)
         THEN BlockEnd(blocks, n)
         ELSE LowestLine(blocks, n - 1)

BlockStart(blocks, n) ==
    IF n = 1 THEN 0
    ELSE IF blocks[n].place = "beside" THEN BlockStart(blocks, n - 1)
    ELSE LowestLine(blocks, n - 1) + BlockGap

BlockWords(blocks, n) ==
    LET x == IF BlockColumn(blocks, n) = "L" THEN LeftX0 ELSE x0_thresh_default
        y == BlockStart(blocks, n)
        first == IF blocks[n].kind = "header"
                 THEN <<Word(HeaderTextOf(n), x, y)>>
                 ELSE <<Word(TitleText, x, y), Word(NameText, x + WordPitch, y)>>
    IN  first \o [r \in 1..(blocks[n].nlines - 1) |->
                     Word(AffiliationText, x, y + r * LinePitch)]

RECURSIVE PageOfBlocks(_, _)
PageOfBlocks(blocks, n) ==
    IF n = 0 THEN <<>>
    ELSE PageOfBlocks(blocks, n - 1) \o BlockWords(blocks, n)

BlockPages ==
    UNION {{PageOfBlocks(b, n) :
                b \in {c \in [1..n -> BlockShapes] :
                           n = 0 \/ c[1].place # "beside"}} :
           n \in 0..MaxBlocks}

Argentina == <<"A", "R", "G", "E", "N", "T", "I", "N", "A">>

JaneRoe == <<"J", "a", "n", "e", " ", "R", "o", "e">>

DeptOfWildlife ==
    <<"D", "e", "p", "t", ".", " ", "o", "f", " ",
      "W", "i", "l", "d", "l", "i", "f", "e">>

\* header ARGENTINA at top 10, Jane Roe / Dept. of Wildlife at tops 35 and 45
\* (midpoint 40), a second person block below, all in the left column
ScenarioPage ==
    << Word(Argentina, 50, 10),
       Word(<<"J", "a", "n", "e">>, 50, 35), Word(<<"R", "o", "e">>, 80, 35),
       Word(<<"D", "e", "p", "t", ".">>, 50, 45), Word(<<"o", "f">>, 85, 45),
       Word(<<"W", "i", "l", "d", "l", "i", "f", "e">>, 100, 45),
       Word(NameText, 50, 70), Word(AffiliationText, 50, 80),
       Word(AffiliationText, 50, 90) >>

\* right column: lines at tops 0 and 60 (one block, midpoint 30); left column:
\* the header at top 30 and a five-line block from top 90
MidpointOnHeaderPage ==
    << Word(NameText, 260, 0), Word(HeaderText, 50, 30),
       Word(AffiliationText, 260, 60),
       Word(NameText, 50, 90), Word(AffiliationText, 50, 100),
       Word(AffiliationText, 50, 110), Word(AffiliationText, 50, 120),
       Word(AffiliationText, 50, 130) >>

\* left column: header C at top 0, header AB at top 60 and a six-line block
\* from top 120; right column: lines at tops 30 and 90 (one block, midpoint
\* 60, on the second header and below the first)
TwoHeadersPage ==
    << Word(<<"C">>, 50, 0), Word(NameText, 260, 30), Word(HeaderText, 50, 60),
       Word(AffiliationText, 260, 90),
       Word(NameText, 50, 120), Word(AffiliationText, 50, 130),
       Word(AffiliationText, 50, 140), Word(AffiliationText, 50, 150),
       Word(AffiliationText, 50, 160), Word(AffiliationText, 50, 170) >>

TwoColumnPages ==
    BlockPages \cup {ScenarioPage, MidpointOnHeaderPage, TwoHeadersPage}

InitTwo ==
    /\ pc = "tc_headers"
    /\ IdleCluster /\ IdleRun
    /\ x_threshold \in {x0_thresh_default, LeftX0 + WordPitch}
    /\ columns = <<>>
    /\ variant \in {"engine", "legacy"}
    /\ words \in TwoColumnPages
    /\ headers = <<>> /\ col = 0 /\ paras = <<>> /\ blk_idx = 0
    /\ IdleHon /\ IdlePara /\ IdleDoc /\ IdleWalk /\ IdleOut

\* full_lines, full_paras, headers
TC_DetectHeaders ==
    /\ pc = "tc_headers"
    /\ headers' = page_headers(words)
    /\ pc' = "tc_columns"
    /\ UNCHANGED <<variant, clusterVars, splitVars, runVars, words, col, paras, blk_idx, honVars, paraVars,
                   docVars, walkVars, outVars>>

\* for col_words in (left_words, right_words): lined, paras
TC_NextColumn ==
    /\ pc = "tc_columns"
    /\ col < 2
    /\ col' = col + 1
    /\ paras' = column_paras(IF col = 0
                             THEN left_words(words, x_threshold)
                             ELSE right_words(words, x_threshold))
    /\ blk_idx' = 1
    /\ pc' = "tc_blocks"
    /\ UNCHANGED <<variant, clusterVars, splitVars, runVars, words, headers, honVars, paraVars, docVars,
                   walkVars, outVars>>

\* for blk, y0, y1 in paras: a pure header is skipped
TC_SkipHeader ==
    /\ pc = "tc_blocks"
    /\ blk_idx <= Len(paras)
    /\ IsHeaderPara(paras[blk_idx])
    /\ blk_idx' = blk_idx + 1
    /\ UNCHANGED <<pc, variant, clusterVars, splitVars, runVars, words, headers, col, paras, honVars, paraVars,
                   docVars, walkVars, outVars>>

\* for blk, y0, y1 in paras: records.append(Record(...))
TC_EmitRecord ==
    /\ pc = "tc_blocks"
    /\ blk_idx <= Len(paras)
    /\ ~IsHeaderPara(paras[blk_idx])
    /\ records' = Append(records, block_record(paras[blk_idx], headers, variant))
    /\ blk_idx' = blk_idx + 1
    /\ UNCHANGED <<pc, variant, clusterVars, splitVars, runVars, words, headers, col, paras, ret, honVars,
                   paraVars, docVars, walkVars>>

\* the paras of the column are exhausted
TC_ColumnDone ==
    /\ pc = "tc_blocks"
    /\ blk_idx > Len(paras)
    /\ pc' = "tc_columns"
    /\ UNCHANGED <<variant, clusterVars, splitVars, runVars, words, headers, col, paras, blk_idx, honVars,
                   paraVars, docVars, walkVars, outVars>>

\* return records
TC_Return ==
    /\ pc = "tc_columns"
    /\ col = 2
    /\ ret' = Returned(records)
    /\ pc' = "tc_done"
    /\ UNCHANGED <<variant, clusterVars, splitVars, runVars, words, headers, col, paras, blk_idx, records,
                   honVars, paraVars, docVars, walkVars>>

NextTwo ==
    \/ TC_DetectHeaders
    \/ TC_NextColumn
    \/ TC_SkipHeader
    \/ TC_EmitRecord
    \/ TC_ColumnDone
    \/ TC_Return

SpecTwo == InitTwo /\ [][NextTwo]_vars

(***************************************************************************)
(* What the claims about the two-column strategy speak of                  *)
(***************************************************************************)
\* a text of uppercase letters, spaces and slashes only, not empty once trimmed
HeaderShaped(t) ==
    /\ Strip(t) # <<>>
    /\ \A j \in 1..Len(Strip(t)) : Strip(t)[j] \in UpperCase \cup {" ", "/"}

\* a Paragraph that is a single header-shaped Line
SingleHeaderLine(p) == Len(p.lines) = 1 /\ HeaderShaped(p.lines[1])

\* the Paragraphs of the whole, unsplit page
WholePageParagraphs ==
    collect_paragraphs_with_y(group_words_to_lines_with_y(words, y_tol),
                              para_factor_num, para_factor_den)

\* the Paragraphs of column c: 1 left, 2 right
ColumnParagraphs(c) ==
    column_paras(IF c = 1 THEN left_words(words, x_threshold)
                 ELSE right_words(words, x_threshold))

NonHeaders(ps) == {j \in 1..Len(ps) : ~SingleHeaderLine(ps[j])}

\* the position of Paragraph j among the Paragraphs of ps that are no headers
RankAmongNonHeaders(ps, j) == Cardinality({h \in NonHeaders(ps) : h <= j})

\* r is made of p: the name line is p's first Line, the Affiliation the
\* space-join of the remaining Lines
RecordOfParagraph(r, p) ==
    /\ <<r.Honorific, r.Person_Name>> = split_honorific_and_person(p.lines[1])
    /\ r.Affiliation = JoinSpace(Tail(p.lines))

\* the Paragraph whose Record was appended last, while a column is walked
LastBlock == paras[blk_idx - 1]

JustEmitted ==
    pc = "tc_blocks" /\ blk_idx > 1 /\ ~SingleHeaderLine(LastBlock)

\* the Headers at or above the midpoint of LastBlock
HeadersAbove ==
    {h \in 1..Len(headers) : headers[h].mid2 <= LastBlock.y0 + LastBlock.y1}

\* C4: in each column a Paragraph that is a single header-shaped Line yields
\* no Record and every other Paragraph yields exactly one, made of its first
\* Line (split by the Honorific Parser) and the space-join of its remaining
\* Lines, left column first, whatever the column threshold; the roster page
\* of the scenario (header ARGENTINA at mid 10, Paragraph Jane Roe / Dept. of
\* Wildlife at mid 40, wholly in the left column under the default threshold)
\* gives Record {ARGENTINA, "", Jane Roe, Dept. of Wildlife}.
OneRecordPerNonHeaderParagraph ==
    pc = "tc_done" =>
        LET lp == ColumnParagraphs(1)
            rp == ColumnParagraphs(2)
            nl == Cardinality(NonHeaders(lp))
        IN  /\ ret.returned
            /\ Len(ret.value) = nl + Cardinality(NonHeaders(rp))
            /\ \A j \in NonHeaders(lp) :
                 RecordOfParagraph(ret.value[RankAmongNonHeaders(lp, j)], lp[j])
            /\ \A j \in NonHeaders(rp) :
                 RecordOfParagraph(ret.value[nl + RankAmongNonHeaders(rp, j)],
                                   rp[j])
            /\ (words = ScenarioPage /\ x_threshold = x0_thresh_default) =>
                 /\ headers = <<[mid2 |-> 20, name |-> Argentina]>>
                 /\ lp[2] = [lines |-> <<JaneRoe, DeptOfWildlife>>,
                             y0 |-> 35, y1 |-> 45]
                 /\ ret.value[1].Delegation = Argentina
                 /\ ret.value[1].Honorific = <<>>
                 /\ ret.value[1].Person_Name = JaneRoe
                 /\ ret.value[1].Affiliation = DeptOfWildlife

\* C4 witness: the roster page has been processed and gave the Record
ScenarioRecordWitness ==
    /\ pc = "tc_done"
    /\ words = ScenarioPage
    /\ ret.value[1] = [Delegation |-> Argentina, Honorific |-> <<>>,
                       Person_Name |-> JaneRoe, Affiliation |-> DeptOfWildlife]

\* C5: the Header list scanned is the one detected on the Paragraphs of the
\* whole unsplit page, in mid_y-ascending order, the same while the left and
\* while the right column is walked; and the Delegation of a Record is the name
\* of the last Header of that list whose mid_y is <= the Paragraph's midpoint
\* (a Header exactly at the midpoint owns the Paragraph).  The Headers of a
\* page differ in name, so that the last is told from the others.
HeaderScopeResolution ==
    /\ pc \in {"tc_columns", "tc_blocks", "tc_done"} =>
         LET full == WholePageParagraphs
             hs == {j \in 1..Len(full) : SingleHeaderLine(full[j])}
         IN  /\ Len(headers) = Cardinality(hs)
             /\ \A j \in hs :
                  LET k == Cardinality({h \in hs : h <= j})
                  IN  /\ headers[k].mid2 = full[j].y0 + full[j].y1
                      /\ headers[k].name = BeforeSlashStripped(full[j].lines[1])
             /\ \A a, b \in 1..Len(headers) :
                  a < b => headers[a].mid2 <= headers[b].mid2
    /\ (JustEmitted /\ HeadersAbove # {}) =>
         \E h \in HeadersAbove :
            /\ \A g \in HeadersAbove : g <= h
            /\ records[Len(records)].Delegation = headers[h].name

\* C5 witness: a Record was emitted for a right-column Paragraph whose
\* midpoint is exactly the mid_y of the second Header of the page, with a
\* Header of another name above it, under the name of the second Header
MidpointOnHeaderWitness ==
    /\ JustEmitted
    /\ col = 2
    /\ \E h \in 2..Len(headers) :
         /\ headers[h].mid2 = LastBlock.y0 + LastBlock.y1
         /\ headers[h - 1].mid2 < headers[h].mid2
         /\ headers[h - 1].name # headers[h].name
         /\ records[Len(records)].Delegation = headers[h].name

\* C6: a non-header Paragraph whose midpoint lies above every Header of its
\* page (or on a page with no Header) still yields its Record, and that
\* Record's Delegation is the empty string.
UnresolvedDelegationIsEmptyString ==
    (JustEmitted /\ HeadersAbove = {}) =>
        /\ records # <<>>
        /\ RecordOfParagraph(records[Len(records)], LastBlock)
        /\ records[Len(records)].Delegation = <<>>

\* the same, of _twocol_records_from_words alone
UnresolvedDelegationIsEmptyStringInEngine ==
    variant = "engine" => UnresolvedDelegationIsEmptyString

(***************************************************************************)
(* SpecSingle: the single-column strategy on a document.                   *)
(*                                                                         *)
(* A page is given by its characters.  The pages are laid out from line    *)
(* templates, one template per Line, LinePitch apart, the characters of a  *)
(* Line CharPitch apart from LeftX0; a blank Line is a single space.  A    *)
(* document is one page of up to MaxLines Lines of any template, or up to  *)
(* MaxPages pages of up to MaxLinesMulti Lines, each a bold or a plain     *)
(* Line.  One page is the roster of the specification's scenario.          *)
(***************************************************************************)
MaxPages == 2

MaxLines == 4

MaxLinesMulti == 2

CharPitch == 6

Char(t, x, y, b) == [text |-> t, x0 |-> x, top |-> y, bold |-> b]

LineTemplate(t, b) == [text |-> t, bold |-> b]

LineTemplates ==
    { LineTemplate(<<"A", " ", "/", "B">>, TRUE),
      LineTemplate(<<"C">>, TRUE),
      LineTemplate(<<"/", "D">>, TRUE),
      LineTemplate(<<" ">>, TRUE),
      LineTemplate(<<"M", "r", ".", " ", "X">>, FALSE),
      LineTemplate(<<"Y">>, FALSE),
      LineTemplate(<<" ">>, FALSE) }

LineChars(tpl, y) ==
    [j \in 1..Len(tpl.text) |->
        Char(<<tpl.text[j]>>, LeftX0 + (j - 1) * CharPitch, y, tpl.bold)]

RECURSIVE PageOfLines(_, _)
PageOfLines(tpls, n) ==
    IF n = 0 THEN <<>>
    ELSE PageOfLines(tpls, n - 1) \o LineChars(tpls[n], (n - 1) * LinePitch)

\* the templates of the pages of a document of several pages
CarryOverTemplates ==
    {LineTemplate(<<"C">>, TRUE), LineTemplate(<<"Y">>, FALSE)}

CharPages(templates, maxlines) ==
    UNION {{[chars |-> PageOfLines(t, n)] : t \in [1..n -> templates]} :
           n \in 0..maxlines}

Bahamas == <<"B", "A", "H", "A", "M", "A", "S">>

MrJohnDoe == <<"M", "r", ".", " ", "J", "o", "h", "n", " ", "D", "o", "e">>

JohnDoe == <<"J", "o", "h", "n", " ", "D", "o", "e">>

MinistryOfEnvironment ==
    <<"M", "i", "n", "i", "s", "t", "r", "y", " ", "o", "f", " ",
      "E", "n", "v", "i", "r", "o", "n", "m", "e", "n", "t">>

\* Lines [("BAHAMAS", bold), ("Mr. John Doe", plain),
\*        ("Ministry of Environment", plain), ("", -)]
BahamasPage ==
    [chars |->
        PageOfLines(<<LineTemplate(Bahamas, TRUE),
                      LineTemplate(MrJohnDoe, FALSE),
                      LineTemplate(MinistryOfEnvironment, FALSE),
                      LineTemplate(<<" ">>, FALSE)>>, 4)]

SingleColumnDocuments ==
    {<<>>, <<BahamasPage>>}
    \cup {<<p>> : p \in CharPages(LineTemplates, MaxLines)}
    \cup UNION {[1..n -> CharPages(CarryOverTemplates, MaxLinesMulti)] :
                  n \in 2..MaxPages}

\* current_delegation: Optional[str] = None, at the start of a page
PageStartDelegationCarried(previous) == previous

PageStartDelegation(previous) == None

\* the test of the affiliation loop on lines[i]
continues_affiliation_through_bold(line) == Strip(line.text) # <<>>

continues_affiliation(line) == ~line.is_bold /\ Strip(line.text) # <<>>

\* the Record appended for the person row
person_record(v) ==
    IF v = "engine"
    THEN [Delegation |-> current_delegation, Honorific |-> honorific,
          Person_Name |-> person,
          Affiliation |-> Strip(JoinSpace(affiliation_lines))]
    ELSE [Delegation |-> current_delegation, Person_Name |-> person,
          Affiliation |-> Strip(JoinSpace(affiliation_lines))]

InitSingle ==
    /\ pc = "sc_pages"
    /\ IdleCluster /\ IdleSplit /\ IdleRun
    /\ variant \in {"engine", "legacy"}
    /\ pdf \in SingleColumnDocuments
    /\ page = 0 /\ force_ocr = FALSE /\ layout = "auto" /\ mode = ""
    /\ IdleHon /\ IdlePara /\ IdleTwo /\ IdleWalk /\ IdleOut

\* for page in pdf.pages: lines = group_chars_to_lines(page.chars); i = 0;
\* current_delegation = None
SC_NextPage ==
    /\ pc = "sc_pages"
    /\ page < Len(pdf)
    /\ ~(variant = "legacy" /\ pdf[page + 1].chars = <<>>)
    /\ page' = page + 1
    /\ lines' = group_chars_to_lines(pdf[page + 1].chars, y_tol)
    /\ i' = 1
    /\ current_delegation' = PageStartDelegation(current_delegation)
    /\ pc' = "sc_walk"
    /\ UNCHANGED <<variant, clusterVars, splitVars, runVars, pdf, force_ocr, layout, mode, honorific, person,
                   affiliation_lines, honVars, paraVars, twoVars, outVars>>

\* single_column_bold_extract.group_chars_to_lines reads chars[0] of a page
\* without characters: IndexError, which nothing catches
SC_GroupRaises ==
    /\ pc = "sc_pages"
    /\ page < Len(pdf)
    /\ variant = "legacy" /\ pdf[page + 1].chars = <<>>
    /\ page' = page + 1
    /\ pc' = "sc_raised"
    /\ UNCHANGED <<variant, clusterVars, splitVars, runVars, pdf, force_ocr, layout, mode, walkVars, honVars,
                   paraVars,
                   twoVars, outVars>>

\* if is_bold and text: current_delegation = text.split("/", 1)[0].strip()
SC_Header ==
    /\ pc = "sc_walk"
    /\ i <= Len(lines)
    /\ lines[i].is_bold /\ lines[i].text # <<>>
    /\ current_delegation' = BeforeSlashStripped(lines[i].text)
    /\ i' = i + 1
    /\ UNCHANGED <<pc, variant, clusterVars, splitVars, runVars, lines, honorific, person, affiliation_lines,
                   honVars, paraVars, twoVars, docVars, outVars>>

\* if current_delegation and text: the person row
SC_Person ==
    /\ pc = "sc_walk"
    /\ i <= Len(lines)
    /\ ~(lines[i].is_bold /\ lines[i].text # <<>>)
    /\ Truthy(current_delegation) /\ lines[i].text # <<>>
    /\ IF variant = "engine"
       THEN /\ honorific' = split_honorific_and_person(lines[i].text)[1]
            /\ person' = split_honorific_and_person(lines[i].text)[2]
       ELSE /\ honorific' = honorific
            /\ person' = lines[i].text
    /\ i' = i + 1
    /\ affiliation_lines' = <<>>
    /\ pc' = "sc_aff"
    /\ UNCHANGED <<variant, clusterVars, splitVars, runVars, lines, current_delegation, honVars, paraVars,
                   twoVars, docVars, outVars>>

\* while i < len(lines) and not lines[i][3] and lines[i][0].strip()
SC_Affiliation ==
    /\ pc = "sc_aff"
    /\ i <= Len(lines)
    /\ continues_affiliation(lines[i])
    /\ affiliation_lines' =
          Append(affiliation_lines,
                 IF variant = "engine" THEN Strip(lines[i].text)
                 ELSE lines[i].text)
    /\ i' = i + 1
    /\ UNCHANGED <<pc, variant, clusterVars, splitVars, runVars, lines, current_delegation, honorific, person,
                   honVars, paraVars, twoVars, docVars, outVars>>

\* the affiliation loop is left: records.append(Record(...))
SC_Emit ==
    /\ pc = "sc_aff"
    /\ ~(i <= Len(lines) /\ continues_affiliation(lines[i]))
    /\ records' = Append(records, person_record(variant))
    /\ pc' = "sc_walk"
    /\ UNCHANGED <<variant, clusterVars, splitVars, runVars, ret, walkVars, honVars, paraVars, twoVars,
                   docVars>>

\* the else branch without i += 1
SC_SkipInPlace ==
    /\ pc = "sc_walk"
    /\ i <= Len(lines)
    /\ ~(lines[i].is_bold /\ lines[i].text # <<>>)
    /\ ~(Truthy(current_delegation) /\ lines[i].text # <<>>)
    /\ i' = i
    /\ UNCHANGED <<pc, variant, clusterVars, splitVars, runVars, lines,
                   current_delegation, honorific, person, affiliation_lines,
                   honVars, paraVars, twoVars, docVars, outVars>>

\* else: i += 1
SC_Skip ==
    /\ pc = "sc_walk"
    /\ i <= Len(lines)
    /\ ~(lines[i].is_bold /\ lines[i].text # <<>>)
    /\ ~(Truthy(current_delegation) /\ lines[i].text # <<>>)
    /\ i' = i + 1
    /\ UNCHANGED <<pc, variant, clusterVars, splitVars, runVars, lines, current_delegation, honorific, person,
                   affiliation_lines, honVars, paraVars, twoVars, docVars,
                   outVars>>

\* while i < len(lines) is left: the next page
SC_PageDone ==
    /\ pc = "sc_walk"
    /\ i > Len(lines)
    /\ pc' = "sc_pages"
    /\ UNCHANGED <<variant, clusterVars, splitVars, runVars, walkVars, honVars, paraVars, twoVars, docVars,
                   outVars>>

\* return records
SC_Return ==
    /\ pc = "sc_pages"
    /\ page = Len(pdf)
    /\ ret' = Returned(records)
    /\ pc' = "sc_done"
    /\ UNCHANGED <<variant, clusterVars, splitVars, runVars, records, walkVars, honVars, paraVars, twoVars,
                   docVars>>

NextSingle ==
    \/ SC_NextPage
    \/ SC_GroupRaises
    \/ SC_Header
    \/ SC_Person
    \/ SC_Affiliation
    \/ SC_Emit
    \/ SC_Skip
    \/ SC_PageDone
    \/ SC_Return

SpecSingle == InitSingle /\ [][NextSingle]_vars

(***************************************************************************)
(* What the claims about the single-column strategy speak of, said of the  *)
(* Lines of a page alone                                                   *)
(***************************************************************************)
\* the Lines of page p of the document
PageLines(p) == group_chars_to_lines(pdf[p].chars, y_tol)

IsBoldLine(ls, k) == ls[k].is_bold /\ ls[k].text # <<>>

IsPlainLine(ls, k) == ~ls[k].is_bold /\ ls[k].text # <<>>

\* the bold non-empty Lines before Line k
HeaderLinesBefore(ls, k) == {j \in 1..(k - 1) : IsBoldLine(ls, j)}

NearestHeaderLine(ls, k) ==
    CHOOSE j \in HeaderLinesBefore(ls, k) :
        \A h \in HeaderLinesBefore(ls, k) : h <= j

\* the text before the first slash of t: the longest prefix without a slash
TextBeforeFirstSlash(t) ==
    LET n == CHOOSE m \in 0..Len(t) :
                 /\ \A j \in 1..m : t[j] # "/"
                 /\ m = Len(t) \/ t[m + 1] = "/"
    IN  SubSeq(t, 1, n)

\* the Delegation in force when Line k is met; None before the first header
DelegationAt(ls, k) ==
    IF HeaderLinesBefore(ls, k) = {} THEN None
    ELSE Strip(TextBeforeFirstSlash(ls[NearestHeaderLine(ls, k)].text))

IsActiveAt(ls, k) == DelegationAt(ls, k) \notin {None, <<>>}

\* a plain Line met under an active Delegation that no Record has consumed
IsNameLineAt(ls, k) ==
    /\ IsPlainLine(ls, k)
    /\ IsActiveAt(ls, k)
    /\ k = 1 \/ ~IsPlainLine(ls, k - 1)

NameLineIndexes(ls) == {k \in 1..Len(ls) : IsNameLineAt(ls, k)}

\* the last Line of the maximal run of plain Lines that starts at Line k
RunEnd(ls, k) ==
    CHOOSE e \in k..Len(ls) :
        /\ \A j \in (k + 1)..e : IsPlainLine(ls, j)
        /\ e = Len(ls) \/ ~IsPlainLine(ls, e + 1)

RunTexts(ls, k) == [j \in 1..(RunEnd(ls, k) - k) |-> ls[k + j].text]

RECURSIVE RecordsBeforePage(_)
RecordsBeforePage(p) ==
    IF p = 1 THEN 0
    ELSE RecordsBeforePage(p - 1)
         + Cardinality(NameLineIndexes(PageLines(p - 1)))

\* the Record of the name Line k of page p, in the returned list
RecordOfNameLine(p, k) ==
    ret.value[RecordsBeforePage(p)
              + Cardinality({h \in NameLineIndexes(PageLines(p)) : h <= k})]

\* the name Lines of the document, as pairs <<page, line>>
NameLinesOfDocument ==
    UNION {{<<p, k>> : k \in NameLineIndexes(PageLines(p))} :
           p \in 1..Len(pdf)}

\* C1: the Delegation of every emitted Record is the text before the first
\* slash, trimmed, of the nearest preceding bold non-empty Line of its page;
\* and the Line that has just become a PersonName or a part of an Affiliation
\* is never a bold non-empty Line.
DelegationIsNearestBoldLine ==
    /\ pc = "sc_done" =>
         \A pk \in NameLinesOfDocument :
            LET ls == PageLines(pk[1])
            IN  /\ HeaderLinesBefore(ls, pk[2]) # {}
                /\ RecordOfNameLine(pk[1], pk[2]).Delegation
                      = Strip(TextBeforeFirstSlash(
                                  ls[NearestHeaderLine(ls, pk[2])].text))
    /\ pc = "sc_aff" =>
         /\ ~IsBoldLine(lines, i - 1)
         /\ IF affiliation_lines = <<>>
            THEN person = IF variant = "engine"
                          THEN split_honorific_and_person(lines[i - 1].text)[2]
                          ELSE lines[i - 1].text
            ELSE affiliation_lines[Len(affiliation_lines)] = lines[i - 1].text

\* C1 witness: a page whose Lines are "A /B" (bold), a name, "C" (bold), a
\* name has given a Record under A and a Record under C
TwoDelegationsWitness ==
    /\ pc = "sc_done"
    /\ Len(pdf) = 1
    /\ Len(PageLines(1)) = 4
    /\ PageLines(1)[1].text = <<"A", " ", "/", "B">>
    /\ PageLines(1)[3].text = <<"C">>
    /\ Len(ret.value) = 2
    /\ ret.value[1].Delegation = <<"A">>
    /\ ret.value[2].Delegation = <<"C">>

\* C2: a non-bold, non-empty Line reached while a Delegation is active is a
\* name line and yields exactly one Record: its (Honorific, PersonName) is the
\* Honorific Parser's split of the Line, its Affiliation the space-join of the
\* maximal run of immediately following non-bold, non-empty Lines, and the
\* walk resumes at the Line that ended the run; the roster BAHAMAS (bold),
\* Mr. John Doe, Ministry of Environment, blank gives exactly the Record
\* {BAHAMAS, Mr., John Doe, Ministry of Environment}.
NameLineYieldsOneRecord ==
    /\ pc = "sc_done" =>
         /\ ret.returned
         /\ Len(ret.value) = RecordsBeforePage(Len(pdf) + 1)
         /\ \A pk \in NameLinesOfDocument :
              LET ls == PageLines(pk[1])
                  r == RecordOfNameLine(pk[1], pk[2])
              IN  /\ IF variant = "engine"
                     THEN <<r.Honorific, r.Person_Name>>
                             = split_honorific_and_person(ls[pk[2]].text)
                     ELSE r.Person_Name = ls[pk[2]].text
                  /\ r.Affiliation = JoinSpace(RunTexts(ls, pk[2]))
         /\ (pdf = <<BahamasPage>> /\ variant = "engine") =>
              ret.value = <<[Delegation |-> Bahamas,
                             Honorific |-> <<"M", "r", ".">>,
                             Person_Name |-> JohnDoe,
                             Affiliation |-> MinistryOfEnvironment]>>
    /\ (pc = "sc_walk" /\ i <= Len(lines) /\ IsPlainLine(lines, i)
           /\ Truthy(current_delegation)) => IsNameLineAt(lines, i)
    /\ (pc = "sc_walk" /\ i > 1 /\ IsPlainLine(lines, i - 1)
           /\ IsActiveAt(lines, i - 1)) =>
         /\ i > Len(lines) \/ ~IsPlainLine(lines, i)
         /\ records # <<>>
         /\ \E k \in NameLineIndexes(lines) :
              /\ RunEnd(lines, k) = i - 1
              /\ records[Len(records)].Affiliation
                    = JoinSpace(RunTexts(lines, k))

\* C2 witness: the roster page has been walked and gave its one Record
BahamasRecordWitness ==
    /\ pc = "sc_done"
    /\ variant = "engine"
    /\ pdf = <<BahamasPage>>
    /\ ret.value = <<[Delegation |-> Bahamas, Honorific |-> <<"M", "r", ".">>,
                      Person_Name |-> JohnDoe,
                      Affiliation |-> MinistryOfEnvironment]>>

\* C3: the active Delegation is none at the start of every page and is, at
\* every Line, what the bold Lines of that page alone make it; the Records
\* so far are those of the name lines passed, so that a Line met while no
\* Delegation is active produces none; and every Record has a non-empty
\* Delegation.
DelegationDoesNotCarryOver ==
    /\ (pc = "sc_walk" /\ i = 1) => current_delegation = None
    /\ pc \in {"sc_walk", "sc_aff"} =>
         current_delegation = DelegationAt(lines, i)
    /\ pc = "sc_walk" =>
         Len(records) = RecordsBeforePage(page)
                        + Cardinality({k \in NameLineIndexes(lines) : k < i})
    /\ \A j \in 1..Len(records) : records[j].Delegation \notin {None, <<>>}

\* C3 witness: the first page ended under an active Delegation, the second
\* page starts with a plain Line, and that Line has been passed without a
\* Record
NoCarryOverWitness ==
    /\ pc = "sc_walk"
    /\ page = 2
    /\ i = 2
    /\ IsPlainLine(lines, 1)
    /\ IsActiveAt(PageLines(1), Len(PageLines(1)) + 1)
    /\ current_delegation = None
    /\ Len(records) = RecordsBeforePage(2)
    /\ records # <<>>

(***************************************************************************)
(* SpecDoc: the page loops of extract_twocol_textpdf and of                *)
(* extract_with_ocr on a document.                                         *)
(*                                                                         *)
(* A page either makes its token source raise, or gives its tokens: the    *)
(* words of page.extract_words() (None when is_none), or the rows of       *)
(* Tesseract's table for the page image.                                   *)
(***************************************************************************)
MaxDocPages == 3

OcrConfidence == 90

\* data["text"][i], data["conf"][i], data["left"][i], data["top"][i]
OcrRow(t, c, x, y) == [text |-> t, conf |-> c, left |-> x, top |-> y]

\* ocr_page_to_words: rows without text or with a negative confidence are
\* dropped, the others become words
RECURSIVE ocr_page_to_words(_)
ocr_page_to_words(data) ==
    IF data = <<>> THEN <<>>
    ELSE LET row == Head(data)
             txt == Strip(OrEmpty(row.text))
         IN  IF txt = <<>> \/ row.conf < 0
             THEN ocr_page_to_words(Tail(data))
             ELSE <<Word(txt, row.left, row.top)>>
                  \o ocr_page_to_words(Tail(data))

\* words = page.extract_words() or []
extract_words_or_empty(pg) == IF pg.is_none THEN <<>> ELSE pg.words

PersonPage == <<Word(TitleText, LeftX0, 0), Word(NameText, LeftX0 + WordPitch, 0)>>

HeaderOnlyPage == <<Word(HeaderText, LeftX0, 0)>>

DocumentWordPages == {<<>>, PersonPage, HeaderOnlyPage, ScenarioPage}

\* Tesseract's table for a page with these words: a page-level row without
\* text and with confidence -1, a row for each word, a row of white space and
\* a row whose text is None
OcrTable(w) ==
    <<OcrRow(<<>>, -1, 0, 0)>>
    \o [j \in 1..Len(w) |->
           OcrRow(w[j].text \o <<" ">>, OcrConfidence, w[j].x0, w[j].top)]
    \o <<OcrRow(<<" ">>, OcrConfidence, 0, 0), OcrRow(None, OcrConfidence, 0, 0)>>

DocumentPages ==
    {[raises |-> TRUE, is_none |-> FALSE, words |-> <<>>, data |-> <<>>],
     [raises |-> FALSE, is_none |-> TRUE, words |-> <<>>,
      data |-> OcrTable(<<>>)]}
    \cup {[raises |-> FALSE, is_none |-> FALSE, words |-> w,
           data |-> OcrTable(w)] : w \in DocumentWordPages}

Documents == UNION {[1..n -> DocumentPages] : n \in 0..MaxDocPages}

InitDoc ==
    /\ pc = "doc_pages"
    /\ IdleCluster /\ IdleSplit /\ IdleRun
    /\ variant = "engine"
    /\ pdf \in Documents
    /\ force_ocr \in BOOLEAN
    /\ layout = "auto" /\ mode = ""
    /\ page = 0
    /\ words = <<>> /\ headers = <<>> /\ col = 0 /\ paras = <<>> /\ blk_idx = 0
    /\ IdleHon /\ IdlePara /\ IdleWalk /\ IdleOut

\* for page in pdf.pages: words = page.extract_words() or []
DOC_ExtractWords ==
    /\ pc = "doc_pages"
    /\ ~force_ocr
    /\ page < Len(pdf)
    /\ ~pdf[page + 1].raises
    /\ page' = page + 1
    /\ words' = extract_words_or_empty(pdf[page + 1])
    /\ pc' = "doc_words"
    /\ UNCHANGED <<variant, clusterVars, splitVars, runVars, pdf, force_ocr, layout, mode, headers, col, paras,
                   blk_idx,
                   honVars, paraVars, walkVars, outVars>>

\* for img in images: words = ocr_page_to_words(img)
DOC_OcrWords ==
    /\ pc = "doc_pages"
    /\ force_ocr
    /\ page < Len(pdf)
    /\ ~pdf[page + 1].raises
    /\ page' = page + 1
    /\ words' = ocr_page_to_words(pdf[page + 1].data)
    /\ pc' = "doc_words"
    /\ UNCHANGED <<variant, clusterVars, splitVars, runVars, pdf, force_ocr, layout, mode, headers, col, paras,
                   blk_idx,
                   honVars, paraVars, walkVars, outVars>>

\* page.extract_words() or pytesseract.image_to_data raises: no handler
\* encloses the call, the exception leaves the function and out is lost
DOC_SourceRaises ==
    /\ pc = "doc_pages"
    /\ page < Len(pdf)
    /\ pdf[page + 1].raises
    /\ page' = page + 1
    /\ pc' = "doc_raised"
    /\ UNCHANGED <<variant, clusterVars, splitVars, runVars, pdf, force_ocr, layout, mode, twoVars, honVars,
                   paraVars,
                   walkVars, outVars>>

\* if not words: continue
DOC_SkipEmpty ==
    /\ pc = "doc_words"
    /\ words = <<>>
    /\ pc' = "doc_pages"
    /\ UNCHANGED <<variant, clusterVars, splitVars, runVars, twoVars, docVars, honVars, paraVars, walkVars,
                   outVars>>

\* out.extend(_twocol_records_from_words(words, x0_thresh=x0_thresh))
DOC_ExtendRecords ==
    /\ pc = "doc_words"
    /\ words # <<>>
    /\ records' = records
                  \o twocol_records_from_words(words, x_threshold, variant)
    /\ pc' = "doc_pages"
    /\ UNCHANGED <<variant, clusterVars, splitVars, runVars, ret, twoVars, docVars, honVars, paraVars,
                   walkVars>>

\* return out
DOC_Return ==
    /\ pc = "doc_pages"
    /\ page = Len(pdf)
    /\ ret' = Returned(records)
    /\ pc' = "doc_done"
    /\ UNCHANGED <<variant, clusterVars, splitVars, runVars, records, twoVars, docVars, honVars, paraVars,
                   walkVars>>

NextDoc ==
    \/ DOC_ExtractWords
    \/ DOC_OcrWords
    \/ DOC_SourceRaises
    \/ DOC_SkipEmpty
    \/ DOC_ExtendRecords
    \/ DOC_Return

SpecDoc == InitDoc /\ [][NextDoc]_vars

\* the words the token source gives for page p, when it does not raise
PageWords(p) ==
    IF force_ocr THEN ocr_page_to_words(pdf[p].data)
    ELSE extract_words_or_empty(pdf[p])

\* the Records of the pages 1..n whose token source does not raise
RECURSIVE RecordsOfReadablePages(_)
RecordsOfReadablePages(n) ==
    IF n = 0 THEN <<>>
    ELSE RecordsOfReadablePages(n - 1)
         \o (IF pdf[n].raises THEN <<>>
             ELSE twocol_records_from_words(PageWords(n), x_threshold,
                                            variant))

\* C10: when the token source (or OCR) raises on one page, the page is
\* skipped and the extraction still ends by returning the Records of all
\* the other pages.
PageFailureIsolation ==
    pc \in {"doc_done", "doc_raised"} =>
        /\ ret.returned
        /\ ret.value = RecordsOfReadablePages(Len(pdf))

\* without a raising page the extraction returns the Records of every page
ReadableDocumentIsExtracted ==
    /\ pc = "doc_done" =>
         /\ \A p \in 1..Len(pdf) : ~pdf[p].raises
         /\ ret = Returned(RecordsOfReadablePages(Len(pdf)))
    /\ pc = "doc_raised" =>
         /\ pdf[page].raises
         /\ ret = NotReturned

\* C11: a page whose token stream is empty yields no Line and no Record,
\* raises no exception, and the next page is processed.
EmptyPageIsSkipped ==
    (page >= 1 /\ pdf[page].chars = <<>>) =>
        /\ pc # "sc_raised"
        /\ pc = "sc_walk" =>
             /\ lines = <<>>
             /\ Len(records) = RecordsBeforePage(page)

\* the same, of extract_pdf_data.py alone
EmptyPageIsSkippedInEngine == variant = "engine" => EmptyPageIsSkipped

(***************************************************************************)
(* SpecLayout: detect_layout_quick on a document.                          *)
(*                                                                         *)
(* A page has so many words left of the threshold and so many at or right  *)
(* of it (the first of these exactly at the threshold; one word against    *)
(* three is a side of exactly 25%, one against four a side of 20%), or no  *)
(* text, or a                                                              *)
(* token source that raises.  The first two pages are any such pages; a    *)
(* third page, which the detector must not read, is a two-column page or a *)
(* page that raises.                                                       *)
(***************************************************************************)
MaxSide == 4

\* pdf.pages[:2]
sampled_pages == 2

\* left / total >= 0.25, as 4 * left >= total
quarter_den == 4

Min(a, b) == IF a < b THEN a ELSE b

\* the words of a page with a words left and b words right
SidedWords(a, b) ==
    [j \in 1..a |-> Word(NameText, LeftX0, (j - 1) * LinePitch)]
    \o [j \in 1..b |->
           Word(NameText,
                IF j = 1 THEN x0_thresh_default
                ELSE x0_thresh_default + WordPitch,
                (j - 1) * LinePitch)]

TextPage(w) == [raises |-> FALSE, is_none |-> FALSE, words |-> w]

RaisingPage == [raises |-> TRUE, is_none |-> FALSE, words |-> <<>>]

NoTextPage == [raises |-> FALSE, is_none |-> TRUE, words |-> <<>>]

LayoutPages ==
    {RaisingPage, NoTextPage}
    \cup {TextPage(SidedWords(a, b)) : a \in 0..MaxSide, b \in 0..MaxSide}

LayoutDocuments ==
    UNION {[1..n -> LayoutPages] : n \in 0..sampled_pages}
    \cup {d \o <<p>> : d \in [1..sampled_pages -> LayoutPages],
                       p \in {RaisingPage, TextPage(SidedWords(1, 1))}}

\* sum(1 for w in words if w.get("x0", 0.0) < x0_thresh)
RECURSIVE left_count(_, _)
left_count(ws, x0_thresh) ==
    IF ws = <<>> THEN 0
    ELSE (IF Head(ws).x0 < x0_thresh THEN 1 ELSE 0)
         + left_count(Tail(ws), x0_thresh)

\* sum(1 for w in words if w.get("x0", 0.0) >= x0_thresh)
RECURSIVE right_count(_, _)
right_count(ws, x0_thresh) ==
    IF ws = <<>> THEN 0
    ELSE (IF Head(ws).x0 >= x0_thresh THEN 1 ELSE 0)
         + right_count(Tail(ws), x0_thresh)

\* total != 0 and left / total >= 0.25 and right / total >= 0.25
both_sides_carry_a_quarter(ws, x0_thresh) ==
    LET left == left_count(ws, x0_thresh)
        right == right_count(ws, x0_thresh)
        total == left + right
    IN  /\ total # 0
        /\ left * quarter_den >= total
        /\ right * quarter_den >= total

InitLayout ==
    /\ pc = "dl_pages"
    /\ IdleCluster /\ IdleSplit /\ IdleRun
    /\ variant = "engine"
    /\ pdf \in LayoutDocuments
    /\ page = 0 /\ force_ocr = FALSE /\ layout = "auto" /\ mode = ""
    /\ IdleHon /\ IdlePara /\ IdleTwo /\ IdleWalk /\ IdleOut

\* for page in pdf.pages[:2]: words = page.extract_words() or []
DL_ExtractWords ==
    /\ pc = "dl_pages"
    /\ page < Min(Len(pdf), sampled_pages)
    /\ ~pdf[page + 1].raises
    /\ page' = page + 1
    /\ words' = extract_words_or_empty(pdf[page + 1])
    /\ pc' = "dl_words"
    /\ UNCHANGED <<variant, clusterVars, splitVars, runVars, pdf, force_ocr, layout, mode, headers, col, paras,
                   blk_idx, honVars, paraVars, walkVars, outVars>>

\* page.extract_words() raises: except Exception
DL_Raises ==
    /\ pc = "dl_pages"
    /\ page < Min(Len(pdf), sampled_pages)
    /\ pdf[page + 1].raises
    /\ page' = page + 1
    /\ pc' = "dl_except"
    /\ UNCHANGED <<variant, clusterVars, splitVars, runVars, pdf, force_ocr, layout, mode, twoVars, honVars,
                   paraVars, walkVars, outVars>>

\* except Exception: return "one"
DL_Default ==
    /\ pc = "dl_except"
    /\ mode' = "one"
    /\ pc' = "dl_done"
    /\ UNCHANGED <<variant, clusterVars, splitVars, runVars, pdf, page, force_ocr, layout, twoVars, honVars,
                   paraVars, walkVars, outVars>>

\* if not words: continue
DL_SkipEmpty ==
    /\ pc = "dl_words"
    /\ words = <<>>
    /\ pc' = "dl_pages"
    /\ UNCHANGED <<variant, clusterVars, splitVars, runVars, twoVars, docVars, honVars, paraVars, walkVars,
                   outVars>>

\* both sides carry at least 25%: return "two"
DL_ReturnTwo ==
    /\ pc = "dl_words"
    /\ words # <<>>
    /\ both_sides_carry_a_quarter(words, x_threshold)
    /\ mode' = "two"
    /\ pc' = "dl_done"
    /\ UNCHANGED <<variant, clusterVars, splitVars, runVars, pdf, page, force_ocr, layout, twoVars, honVars,
                   paraVars, walkVars, outVars>>

\* the page does not qualify: the next page
DL_NextPage ==
    /\ pc = "dl_words"
    /\ words # <<>>
    /\ ~both_sides_carry_a_quarter(words, x_threshold)
    /\ pc' = "dl_pages"
    /\ UNCHANGED <<variant, clusterVars, splitVars, runVars, twoVars, docVars, honVars, paraVars, walkVars,
                   outVars>>

\* the sampled pages are exhausted: return "one"
DL_ReturnOne ==
    /\ pc = "dl_pages"
    /\ page >= Min(Len(pdf), sampled_pages)
    /\ mode' = "one"
    /\ pc' = "dl_done"
    /\ UNCHANGED <<variant, clusterVars, splitVars, runVars, pdf, page, force_ocr, layout, twoVars, honVars,
                   paraVars, walkVars, outVars>>

NextLayout ==
    \/ DL_ExtractWords
    \/ DL_Raises
    \/ DL_Default
    \/ DL_SkipEmpty
    \/ DL_ReturnTwo
    \/ DL_NextPage
    \/ DL_ReturnOne

SpecLayout == InitLayout /\ [][NextLayout]_vars

\* the tokens of page p left of, and at or right of, the threshold
LeftTokens(p) ==
    {j \in 1..Len(pdf[p].words) : pdf[p].words[j].x0 < x_threshold}

RightTokens(p) ==
    {j \in 1..Len(pdf[p].words) : pdf[p].words[j].x0 >= x_threshold}

\* page p has tokens, and each side holds at least 25% of them
IsQualifyingPage(p) ==
    /\ ~pdf[p].raises /\ ~pdf[p].is_none
    /\ Len(pdf[p].words) > 0
    /\ 4 * Cardinality(LeftTokens(p)) >= Len(pdf[p].words)
    /\ 4 * Cardinality(RightTokens(p)) >= Len(pdf[p].words)

QualifyingSampledPages ==
    {p \in 1..Len(pdf) : p <= 2 /\ IsQualifyingPage(p)}

\* the detector has entered its exception handler
DetectorMetFailure == page >= 1 /\ pdf[page].raises

\* C12: the result is "two" if and only if one of the first two pages has
\* tokens with both sides at least 25% of them (exactly 25% qualifies), and
\* "one" otherwise; the scan stops at the first qualifying page and never
\* reads a page after the second.
LayoutTwoIffQualifyingPage ==
    /\ page <= 2
    /\ pc = "dl_done" =>
         /\ mode = "two" <=> QualifyingSampledPages # {}
         /\ mode = "one" <=> QualifyingSampledPages = {}
         /\ mode = "two" =>
              /\ page \in QualifyingSampledPages
              /\ \A p \in QualifyingSampledPages : page <= p

\* what holds of the detector: the same, of the runs in which it has not
\* entered its exception handler
LayoutTwoIffQualifyingPageReadable ==
    /\ page <= 2
    /\ (pc = "dl_done" /\ ~DetectorMetFailure) =>
         /\ mode = "two" <=> QualifyingSampledPages # {}
         /\ mode = "one" <=> QualifyingSampledPages = {}
         /\ mode = "two" =>
              /\ page \in QualifyingSampledPages
              /\ \A p \in QualifyingSampledPages : page <= p

\* a page whose smaller side is 20% was passed over and the next page, whose
\* smaller side is exactly 25%, gave "two"
QuarterPageReached ==
    /\ pc = "dl_done"
    /\ Len(pdf) = 3
    /\ pdf[1] = TextPage(SidedWords(4, 1))
    /\ pdf[2] = TextPage(SidedWords(1, 3))
    /\ pdf[3] = RaisingPage
    /\ mode = "two"
    /\ page = 2

\* C13: a sampled page whose token extraction fails is skipped and the other
\* sampled page is still examined, so that the result is "two" whenever a
\* sampled page that can be read qualifies.
LayoutFailureSkipsPage ==
    pc = "dl_done" =>
        (mode = "two" <=> QualifyingSampledPages # {})

\* what the detector does on a failure: the result is "one" at once
LayoutFailureDefaultsToOne ==
    (pc = "dl_done" /\ DetectorMetFailure) => mode = "one"

(***************************************************************************)
(* SpecHeader: the header classifier.  is_all_caps_header is applied to a  *)
(* text of up to MaxHeaderLen characters, and the header list is built     *)
(* from a Paragraph of one or two Lines whose first Line is such a text    *)
(* (as a Line is: not empty, no white space at its ends) or the trilingual *)
(* header of the specification.                                            *)
(***************************************************************************)
MaxHeaderLen == 4

HeaderAlphabet == {"A", "É", "b", " ", "/", "1"}

HeaderTexts == UNION {[1..n -> HeaderAlphabet] : n \in 0..MaxHeaderLen}

SwitzerlandSuisseSuiza ==
    <<"S", "W", "I", "T", "Z", "E", "R", "L", "A", "N", "D", " ", "/", " ",
      "S", "U", "I", "S", "S", "E", " ", "/", " ", "S", "U", "I", "Z", "A">>

Switzerland == <<"S", "W", "I", "T", "Z", "E", "R", "L", "A", "N", "D">>

LineTexts ==
    {t \in HeaderTexts : t # <<>> /\ Strip(t) = t} \cup {SwitzerlandSuisseSuiza}

HeaderParagraphs ==
    {[lines |-> <<t>>, y0 |-> LinePitch, y1 |-> LinePitch] : t \in LineTexts}
    \cup {[lines |-> <<t, HeaderText>>, y0 |-> LinePitch,
           y1 |-> LinePitch + LinePitch] : t \in LineTexts}

InitHeader ==
    /\ IdleCluster /\ IdleSplit /\ IdleRun
    /\ variant = "engine"
    /\ \/ /\ pc = "hc_text"
          /\ name_line \in HeaderTexts
          /\ paras = <<>>
       \/ /\ pc = "hc_paras"
          /\ name_line = <<>>
          /\ paras \in {<<p>> : p \in HeaderParagraphs}
    /\ hon_result = <<>>
    /\ words = <<>> /\ headers = <<>> /\ col = 0 /\ blk_idx = 0
    /\ IdlePara /\ IdleDoc /\ IdleWalk /\ IdleOut

\* is_all_caps_header(text)
HC_Classify ==
    /\ pc = "hc_text"
    /\ ret' = Returned(is_all_caps_header(name_line))
    /\ pc' = "hc_classified"
    /\ UNCHANGED <<variant, clusterVars, splitVars, runVars, records, honVars, paraVars, twoVars, docVars,
                   walkVars>>

\* headers: for blk, y0, y1 in full_paras ... headers.sort
HC_BuildHeaders ==
    /\ pc = "hc_paras"
    /\ headers' = SortedBy(HeadersOfParas(paras), "mid")
    /\ pc' = "hc_headers"
    /\ UNCHANGED <<variant, clusterVars, splitVars, runVars, words, col, paras, blk_idx, honVars, paraVars,
                   docVars, walkVars, outVars>>

NextHeader ==
    \/ HC_Classify
    \/ HC_BuildHeaders

SpecHeader == InitHeader /\ [][NextHeader]_vars

\* C14: a text is header-shaped if and only if, trimmed, it is not empty and
\* each of its characters is an uppercase letter, a space or a slash; only a
\* Paragraph of exactly one Line becomes a Header, and the name stored is the
\* text before the first slash of that Line, trimmed:
\* "SWITZERLAND / SUISSE / SUIZA" gives "SWITZERLAND".
HeaderShapeAndName ==
    /\ pc = "hc_classified" =>
         (ret.value <=>
             /\ Strip(name_line) # <<>>
             /\ \A j \in 1..Len(Strip(name_line)) :
                  Strip(name_line)[j] \in UpperCase \cup {" ", "/"})
    /\ pc = "hc_headers" =>
         LET p == paras[1]
         IN  /\ IF Len(p.lines) = 1 /\ HeaderShaped(p.lines[1])
                THEN headers = <<[mid2 |-> p.y0 + p.y1,
                                  name |-> Strip(TextBeforeFirstSlash(
                                                     p.lines[1]))]>>
                ELSE headers = <<>>
             /\ p.lines = <<SwitzerlandSuisseSuiza>> =>
                  headers[1].name = Switzerland

\* C14 witness: the trilingual header has been stored as SWITZERLAND
SwitzerlandWitness ==
    /\ pc = "hc_headers"
    /\ paras[1].lines = <<SwitzerlandSuisseSuiza>>
    /\ Len(headers) = 1
    /\ headers[1].name = Switzerland

(***************************************************************************)
(* SpecCluster: the two line clusterers applied to a token stream of up to *)
(* MaxTokens tokens, in any order, with tops in 0..MaxTop, in either       *)
(* column, and a tolerance in 0..MaxTol.                                   *)
(***************************************************************************)
MaxTokens == 3

MaxTop == 4

MaxTol == 2

\* the member lists (cur, y0, y1) of the Lines as a clusterer leaves them:
\* clustered in (top, x0) order, then each list sorted in place by x0
\* (line_chars.sort of group_chars_to_lines, cur.sort of
\* group_words_to_lines_with_y) before its Line is made
token_clusters(ts, tol) ==
    IF ts = <<>> THEN <<>>
    ELSE LET sorted == SortedBy(ts, "top_x0")
             groups == ClusterByTop(Tail(sorted), <<Head(sorted)>>,
                                    Head(sorted).top, Head(sorted).top, tol,
                                    <<>>)
         IN  [j \in 1..Len(groups) |->
                [tokens |-> SortedBy(groups[j].tokens, "x0"),
                 y0 |-> groups[j].y0, y1 |-> groups[j].y1]]

StreamWords ==
    {Word(NameText, x, y) : x \in {LeftX0, x0_thresh_default}, y \in 0..MaxTop}

StreamChars ==
    {Char(<<"a">>, x, y, x = LeftX0) :
        x \in {LeftX0, x0_thresh_default}, y \in 0..MaxTop}

InitCluster ==
    /\ \/ pc = "cl_words"
          /\ stream \in UNION {[1..n -> StreamWords] : n \in 0..MaxTokens}
       \/ pc = "cl_chars"
          /\ stream \in UNION {[1..n -> StreamChars] : n \in 0..MaxTokens}
    /\ tolerance \in 0..MaxTol
    /\ clusters = <<>>
    /\ IdleSplit /\ IdleRun
    /\ variant = "engine"
    /\ IdleHon /\ IdlePara /\ IdleTwo /\ IdleDoc /\ IdleWalk /\ IdleOut

\* group_words_to_lines_with_y(words, y_tol)
CL_GroupWords ==
    /\ pc = "cl_words"
    /\ clusters' = token_clusters(stream, tolerance)
    /\ lines_with_y' = group_words_to_lines_with_y(stream, tolerance)
    /\ pc' = "cl_done"
    /\ UNCHANGED <<variant, stream, tolerance, splitVars, runVars,
                   para_result, honVars, twoVars, docVars, walkVars, outVars>>

\* group_chars_to_lines(chars, y_tol)
CL_GroupChars ==
    /\ pc = "cl_chars"
    /\ clusters' = token_clusters(stream, tolerance)
    /\ lines_with_y' = group_chars_to_lines(stream, tolerance)
    /\ pc' = "cl_done"
    /\ UNCHANGED <<variant, stream, tolerance, splitVars, runVars,
                   para_result, honVars, twoVars, docVars, walkVars, outVars>>

NextCluster ==
    \/ CL_GroupWords
    \/ CL_GroupChars

SpecCluster == InitCluster /\ [][NextCluster]_vars

\* the tokens of the Lines, Line after Line
RECURSIVE ClusteredTokens(_)
ClusteredTokens(n) ==
    IF n = 0 THEN <<>> ELSE ClusteredTokens(n - 1) \o clusters[n].tokens

\* the stream in (top, x0) order
StreamByTopX0 == SortedBy(stream, "top_x0")

\* the tokens k of StreamByTopX0 that Line c takes: Line after Line, as many
\* as the Line has members
TokensOfLine(c) ==
    SubSeq(StreamByTopX0, Len(ClusteredTokens(c - 1)) + 1,
           Len(ClusteredTokens(c)))

\* the Line that holds the k-th token of StreamByTopX0
LineOfToken(k) ==
    CHOOSE c \in 1..Len(clusters) :
        /\ Len(ClusteredTokens(c - 1)) < k
        /\ k <= Len(ClusteredTokens(c))

Occurrences(seq, v) == Cardinality({j \in 1..Len(seq) : seq[j] = v})

\* C15: the Lines partition the tokens, each Line taking a run of the tokens
\* in (top, x0) order; in that order a token joins the
\* Line of its predecessor if and only if their tops differ by at most y_tol;
\* a Line's y0 is the least and its y1 the greatest top of its tokens; and
\* the Lines ascend strictly by y0, the next Line starting more than y_tol
\* below the end of the previous one.
LinesPartitionTokens ==
    pc = "cl_done" =>
        LET all == StreamByTopX0
        IN  /\ Len(all) = Len(stream)
            /\ \A j \in 1..Len(stream) :
                 Occurrences(all, stream[j]) = Occurrences(stream, stream[j])
            /\ Len(ClusteredTokens(Len(clusters))) = Len(stream)
            /\ \A c \in 1..Len(clusters) :
                 /\ clusters[c].tokens # <<>>
                 /\ \A j \in 1..Len(TokensOfLine(c)) :
                      Occurrences(clusters[c].tokens, TokensOfLine(c)[j])
                        = Occurrences(TokensOfLine(c), TokensOfLine(c)[j])
            /\ \A k \in 2..Len(all) :
                 /\ all[k - 1].top < all[k].top
                    \/ /\ all[k - 1].top = all[k].top
                       /\ all[k - 1].x0 <= all[k].x0
                 /\ LineOfToken(k) = LineOfToken(k - 1)
                      <=> Abs(all[k].top - all[k - 1].top) <= tolerance
            /\ \A c \in 1..Len(clusters) :
                 LET ts == clusters[c].tokens
                 IN  /\ \E j \in 1..Len(ts) : ts[j].top = clusters[c].y0
                     /\ \E j \in 1..Len(ts) : ts[j].top = clusters[c].y1
                     /\ \A j \in 1..Len(ts) :
                          clusters[c].y0 <= ts[j].top
                          /\ ts[j].top <= clusters[c].y1
            /\ \A c \in 2..Len(clusters) :
                 /\ clusters[c].y0 - clusters[c - 1].y1 > tolerance
                 /\ clusters[c].y0 > clusters[c - 1].y0
            /\ Len(lines_with_y) = Len(clusters)
            /\ \A c \in 1..Len(clusters) :
                 /\ lines_with_y[c].y0 = clusters[c].y0
                 /\ lines_with_y[c].y1 = clusters[c].y1

\* C15 witness: three tokens whose tops are y_tol apart one from the next
\* make a single Line taller than y_tol, whatever the order they come in
ChainedLineWitness ==
    /\ pc = "cl_done"
    /\ tolerance = 2
    /\ Len(stream) = 3
    /\ Len(clusters) = 1
    /\ clusters[1].y0 = 0
    /\ clusters[1].y1 = 4
    /\ stream[1].top = 4

\* the texts of the Paragraphs 1..n, Paragraph after Paragraph
RECURSIVE ParagraphTexts(_, _)
ParagraphTexts(ps, n) ==
    IF n = 0 THEN <<>> ELSE ParagraphTexts(ps, n - 1) \o ps[n].lines

\* C16: the Paragraphs are non-empty runs of consecutive Lines whose
\* concatenation, in order, is the input Line sequence, so that there are
\* never more Paragraphs than Lines; no Line gives no Paragraph, one Line
\* gives one Paragraph holding it; the y0 of a Paragraph is the y0 of its
\* first Line and its y1 the y1 of its last Line.
ParagraphsPartitionLines ==
    pc = "para_done" =>
        LET ps == para_result.paras
        IN  /\ \A k \in 1..Len(ps) : ps[k].lines # <<>>
            /\ ParagraphTexts(ps, Len(ps)) = Texts(lines_with_y)
            /\ Len(ps) <= Len(lines_with_y)
            /\ lines_with_y = <<>> => ps = <<>>
            /\ Len(lines_with_y) = 1 =>
                 ps = <<[lines |-> <<lines_with_y[1].text>>,
                         y0 |-> lines_with_y[1].y0,
                         y1 |-> lines_with_y[1].y1]>>
            /\ \A k \in 1..Len(ps) :
                 /\ ps[k].y0
                       = lines_with_y[Len(ParagraphTexts(ps, k - 1)) + 1].y0
                 /\ ps[k].y1 = lines_with_y[Len(ParagraphTexts(ps, k))].y1

\* C16 witness: four Lines have been cut into two Paragraphs of two Lines
TwoParagraphsWitness ==
    /\ pc = "para_done"
    /\ Len(lines_with_y) = 4
    /\ Len(para_result.paras) = 2
    /\ Len(para_result.paras[1].lines) = 2
    /\ para_result.paras[1].y1 = lines_with_y[2].y1
    /\ para_result.paras[1].y1 # lines_with_y[1].y1
    /\ para_result.paras[2].y0 = lines_with_y[3].y0

(***************************************************************************)
(* SpecSplit: the column splitter on the words of one page, given in any   *)
(* order, with x0 below, on and above the threshold.                       *)
(***************************************************************************)
MaxWords == 3

MaxX0 == 2

MaxWordTop == 1

SplitWords ==
    UNION {[1..n -> {Word(<<"w">>, x, y) : x \in 0..MaxX0, y \in 0..MaxWordTop}] :
           n \in 0..MaxWords}

InitSplit ==
    /\ pc = "cs_call"
    /\ IdleCluster /\ IdleRun
    /\ variant \in {"engine", "legacy"}
    /\ words \in SplitWords
    /\ x_threshold \in 1..MaxX0
    /\ columns = <<>>
    /\ headers = <<>> /\ col = 0 /\ paras = <<>> /\ blk_idx = 0
    /\ IdleHon /\ IdlePara /\ IdleDoc /\ IdleWalk /\ IdleOut

\* left_words = sorted([...]), right_words = sorted([...])
CS_Split ==
    /\ pc = "cs_call"
    /\ columns' = <<left_words(words, x_threshold),
                    right_words(words, x_threshold)>>
    /\ pc' = "cs_done"
    /\ UNCHANGED <<variant, clusterVars, runVars, x_threshold, twoVars,
                   honVars, paraVars, docVars, walkVars, outVars>>

NextSplit == CS_Split

SpecSplit == InitSplit /\ [][NextSplit]_vars

\* a is not after b in (top, x0) order
NotAfter(a, b) == a.top < b.top \/ (a.top = b.top /\ a.x0 <= b.x0)

IsAscending(ws) ==
    \A a \in 1..Len(ws) : \A b \in a..Len(ws) : NotAfter(ws[a], ws[b])

\* C17: the left stream holds exactly the tokens with x0 < threshold and the
\* right stream exactly those with x0 >= threshold, so that each token is in
\* exactly one stream and a token on the threshold goes right; each stream
\* is in ascending (top, x0) order.
ColumnsSplitAtThreshold ==
    pc = "cs_done" =>
        /\ Len(columns[1]) + Len(columns[2]) = Len(words)
        /\ \A j \in 1..Len(words) :
             LET w == words[j]
             IN  /\ w.x0 < x_threshold =>
                      /\ Occurrences(columns[1], w) = Occurrences(words, w)
                      /\ Occurrences(columns[2], w) = 0
                 /\ w.x0 >= x_threshold =>
                      /\ Occurrences(columns[2], w) = Occurrences(words, w)
                      /\ Occurrences(columns[1], w) = 0
        /\ IsAscending(columns[1])
        /\ IsAscending(columns[2])

\* C17 witness: a page given out of order, with a word on the threshold, has
\* been split into two streams of more than one word in all
WordOnThresholdWitness ==
    /\ pc = "cs_done"
    /\ ~IsAscending(words)
    /\ \E j \in 1..Len(words) : words[j].x0 = x_threshold
    /\ \E j \in 1..Len(columns[2]) : columns[2][j].x0 = x_threshold
    /\ columns[1] # <<>>
    /\ Len(columns[2]) >= 2

(***************************************************************************)
(* SpecCites: extract_cites on a document, with every layout option, with  *)
(* and without force_ocr, at the default threshold and at a threshold      *)
(* that cuts the roster page in two.  A page carries what each token       *)
(* source gives for it: words (extract_words), data (Tesseract), chars.    *)
(***************************************************************************)
MaxCitesPages == 3

CitesPage(r, n, w, c) ==
    [raises |-> r, is_none |-> n, words |-> w, data |-> OcrTable(w),
     chars |-> c]

\* the roster page with a second roster in the right column
TwoSidedWords ==
    ScenarioPage
    \o << Word(TitleText, x0_thresh_default, 35),
          Word(NameText, x0_thresh_default + WordPitch, 35),
          Word(AffiliationText, x0_thresh_default, 45) >>

\* a plain Line, a bold Line, a plain Line
PlainBoldPlainChars ==
    PageOfLines(<<LineTemplate(<<"Y">>, FALSE), LineTemplate(<<"C">>, TRUE),
                  LineTemplate(<<"M", "r", ".", " ", "X">>, FALSE)>>, 3)

CitesPages ==
    { CitesPage(FALSE, TRUE, <<>>, <<>>),
      CitesPage(TRUE, FALSE, <<>>, BahamasPage.chars),
      CitesPage(FALSE, FALSE, ScenarioPage, BahamasPage.chars),
      CitesPage(FALSE, FALSE, TwoSidedWords, PlainBoldPlainChars) }

CitesDocuments == UNION {[1..n -> CitesPages] : n \in 0..MaxCitesPages}

InitCites ==
    /\ pc = "ct_call"
    /\ IdleCluster /\ IdleRun
    /\ variant = "engine"
    /\ pdf \in CitesDocuments
    /\ layout \in {"auto", "one", "two"}
    /\ force_ocr \in BOOLEAN
    /\ x_threshold \in {x0_thresh_default, LeftX0 + WordPitch}
    /\ columns = <<>>
    /\ mode = "" /\ page = 0
    /\ IdleHon /\ IdlePara /\ IdleTwo /\ IdleWalk /\ IdleOut

\* force_ocr obeyed only when the layout is left to the detector
CT_ForceOcrUnlessLayoutGiven ==
    /\ pc = "ct_call"
    /\ force_ocr
    /\ IF layout = "auto"
       THEN /\ records' = <<>>
            /\ page' = 0
            /\ mode' = mode
            /\ pc' = "doc_pages"
       ELSE /\ mode' = layout
            /\ pc' = "ct_mode"
            /\ UNCHANGED <<records, page>>
    /\ UNCHANGED <<variant, clusterVars, splitVars, runVars, pdf, force_ocr,
                   layout, ret, twoVars, honVars, paraVars, walkVars>>

\* if force_ocr: return extract_with_ocr(...): out = []
CT_ForceOcr ==
    /\ pc = "ct_call"
    /\ force_ocr
    /\ records' = <<>>
    /\ page' = 0
    /\ pc' = "doc_pages"
    /\ UNCHANGED <<variant, clusterVars, splitVars, runVars, pdf, force_ocr,
                   layout, mode, ret, twoVars, honVars, paraVars, walkVars>>

\* mode = detect_layout_quick(pdf_path, x0_thresh=x0_thresh)
CT_Detect ==
    /\ pc = "ct_call"
    /\ ~force_ocr
    /\ layout = "auto"
    /\ page' = 0
    /\ pc' = "dl_pages"
    /\ UNCHANGED <<variant, clusterVars, splitVars, runVars, pdf, force_ocr,
                   layout, mode, twoVars, honVars, paraVars, walkVars,
                   outVars>>

\* mode = layout
CT_Layout ==
    /\ pc = "ct_call"
    /\ ~force_ocr
    /\ layout # "auto"
    /\ mode' = layout
    /\ pc' = "ct_mode"
    /\ UNCHANGED <<variant, clusterVars, splitVars, runVars, pdf, page,
                   force_ocr, layout, twoVars, honVars, paraVars, walkVars,
                   outVars>>

\* if mode == "two": return extract_twocol_textpdf(...): out = []
CT_TwoColumn ==
    /\ pc \in {"dl_done", "ct_mode"}
    /\ mode = "two"
    /\ records' = <<>>
    /\ page' = 0
    /\ pc' = "doc_pages"
    /\ UNCHANGED <<variant, clusterVars, splitVars, runVars, pdf, force_ocr,
                   layout, mode, ret, twoVars, honVars, paraVars, walkVars>>

\* the single-column strategy entered with the records of the run before
CT_SingleColumnKeepingRecords ==
    /\ pc \in {"dl_done", "ct_mode"}
    /\ mode # "two"
    /\ page' = 0
    /\ pc' = "sc_pages"
    /\ UNCHANGED <<variant, clusterVars, splitVars, runVars, pdf, force_ocr,
                   layout, mode, outVars, twoVars, honVars, paraVars,
                   walkVars>>

\* else: return extract_singlecol_textpdf(pdf_path): records = []
CT_SingleColumn ==
    /\ pc \in {"dl_done", "ct_mode"}
    /\ mode # "two"
    /\ records' = <<>>
    /\ page' = 0
    /\ pc' = "sc_pages"
    /\ UNCHANGED <<variant, clusterVars, splitVars, runVars, pdf, force_ocr,
                   layout, mode, ret, twoVars, honVars, paraVars, walkVars>>

NextCites ==
    \/ CT_ForceOcr
    \/ CT_Detect
    \/ CT_Layout
    \/ CT_TwoColumn
    \/ CT_SingleColumn
    \/ DL_ExtractWords
    \/ DL_Raises
    \/ DL_Default
    \/ DL_SkipEmpty
    \/ DL_ReturnTwo
    \/ DL_NextPage
    \/ DL_ReturnOne
    \/ DOC_ExtractWords
    \/ DOC_OcrWords
    \/ DOC_SourceRaises
    \/ DOC_SkipEmpty
    \/ DOC_ExtendRecords
    \/ DOC_Return
    \/ SC_NextPage
    \/ SC_Header
    \/ SC_Person
    \/ SC_Affiliation
    \/ SC_Emit
    \/ SC_Skip
    \/ SC_PageDone
    \/ SC_Return

SpecCites == InitCites /\ [][NextCites]_vars

TwoColumnStates == {"doc_pages", "doc_words", "doc_done", "doc_raised"}

SingleColumnStates == {"sc_pages", "sc_walk", "sc_aff", "sc_done"}

DetectorStates == {"dl_pages", "dl_words", "dl_except", "dl_done"}

\* what the detector answers for the document: "two" when a sampled page
\* qualifies and no page up to it fails, "one" otherwise
DetectorVerdict ==
    IF \E p \in QualifyingSampledPages : \A q \in 1..p : ~pdf[q].raises
    THEN "two" ELSE "one"

\* the strategy at work and the token source of the page in hand are those
\* the options name
StrategyIsTheOneNamed ==
    /\ force_ocr =>
         /\ pc \in {"ct_call"} \cup TwoColumnStates
         /\ pc = "doc_words" => words = ocr_page_to_words(pdf[page].data)
    /\ (~force_ocr /\ pc = "doc_words") =>
         words = extract_words_or_empty(pdf[page])
    /\ (~force_ocr /\ layout = "two") =>
         pc \in {"ct_call", "ct_mode"} \cup TwoColumnStates
    /\ (~force_ocr /\ layout = "one") =>
         pc \in {"ct_call", "ct_mode"} \cup SingleColumnStates
    /\ (~force_ocr /\ layout = "auto") =>
         /\ pc \in {"ct_call"} \cup DetectorStates \cup TwoColumnStates
                   \cup SingleColumnStates
         /\ pc \in TwoColumnStates => DetectorVerdict = "two"
         /\ pc \in SingleColumnStates => DetectorVerdict = "one"
    /\ pc \in {"doc_done", "sc_done"} => page = Len(pdf)

\* a strategy, once entered, is kept from page to page: the mode is not
\* set again and the detector is not entered again
StrategyIsKept ==
    /\ pc \in TwoColumnStates => pc' \in TwoColumnStates /\ mode' = mode
    /\ pc \in SingleColumnStates => pc' \in SingleColumnStates /\ mode' = mode

\* C19: with force_ocr the OCR token source and the two-column strategy are
\* used for every page whatever the layout option is; without it layout
\* "two" selects the two-column strategy, "one" the single-column strategy
\* and "auto" the strategy the detector names, the detector being evaluated
\* once for the document and not again for a page.
DispatchFollowsOptions == []StrategyIsTheOneNamed /\ [][StrategyIsKept]_vars

\* C19 witness: under "auto" the first page made the detector answer "two",
\* and the second page, which does not qualify, is in the hands of the
\* two-column strategy
SecondPageKeepsStrategyWitness ==
    /\ pc = "doc_words"
    /\ ~force_ocr
    /\ layout = "auto"
    /\ mode = "two"
    /\ page = 2
    /\ 1 \in QualifyingSampledPages
    /\ 2 \notin QualifyingSampledPages
    /\ words # <<>>

\* the Paragraphs of a stream that give a Record, in the order of the stream
RecordParagraphs(ps) ==
    LET GivesRecord(q) == q.lines # <<>> /\ ~IsHeaderPara(q)
    IN  SelectSeq(ps, GivesRecord)

\* the Records of one stream of a page whose headers are hdrs: one for each
\* Paragraph that is not a header, Paragraph after Paragraph
StreamRecords(ws, hdrs) ==
    LET ps == RecordParagraphs(column_paras(ws))
    IN  [k \in 1..Len(ps) |-> block_record(ps[k], hdrs, variant)]

\* the Paragraphs of the stream follow one another down the page
IsTopDown(ps) == \A a \in 1..Len(ps) : \A b \in (a + 1)..Len(ps) : ps[a].y1 < ps[b].y0

LeftStreamRecords(p) ==
    StreamRecords(left_words(PageWords(p), x_threshold),
                  page_headers(PageWords(p)))

RightStreamRecords(p) ==
    StreamRecords(right_words(PageWords(p), x_threshold),
                  page_headers(PageWords(p)))

\* the Records of page p under the two-column strategy, from the tokens of
\* page p and the threshold alone: the left stream, then the right stream
TwoColumnPageRecords(p) ==
    IF PageWords(p) = <<>> THEN <<>>
    ELSE LeftStreamRecords(p) \o RightStreamRecords(p)

\* the members of a set of numbers, in ascending order
RECURSIVE InAscendingOrder(_)
InAscendingOrder(S) ==
    IF S = {} THEN <<>>
    ELSE LET least == CHOOSE a \in S : \A b \in S : a <= b
         IN  <<least>> \o InAscendingOrder(S \ {least})

\* the Records of page p under the single-column strategy, from the Lines
\* of page p alone: one for each name Line, from the top of the page down
SingleColumnPageRecords(p) ==
    LET ls == PageLines(p)
        ks == InAscendingOrder(NameLineIndexes(ls))
    IN  [n \in 1..Len(ks) |->
           [Delegation |-> DelegationAt(ls, ks[n]),
            Honorific |-> split_honorific_and_person(ls[ks[n]].text)[1],
            Person_Name |-> split_honorific_and_person(ls[ks[n]].text)[2],
            Affiliation |-> JoinSpace(RunTexts(ls, ks[n]))]]

RECURSIVE TwoColumnRecordsOfPages(_)
TwoColumnRecordsOfPages(n) ==
    IF n = 0 THEN <<>>
    ELSE TwoColumnRecordsOfPages(n - 1) \o TwoColumnPageRecords(n)

RECURSIVE SingleColumnRecordsOfPages(_)
SingleColumnRecordsOfPages(n) ==
    IF n = 0 THEN <<>>
    ELSE SingleColumnRecordsOfPages(n - 1) \o SingleColumnPageRecords(n)

\* C18: the Records of a document are the Records of its pages, page after
\* page, the Records of a page depending on the tokens of that page and the
\* threshold alone; the Records of the left column of a two-column page come
\* before those of its right column, and within a stream the Records follow
\* the Paragraphs (the Lines, in the single-column strategy) down the page.
PagesConcatenateInOrder ==
    /\ pc = "doc_pages" => records = TwoColumnRecordsOfPages(page)
    /\ pc = "doc_done" =>
         /\ ret.value = TwoColumnRecordsOfPages(Len(pdf))
         /\ \A p \in 1..Len(pdf) :
              /\ IsTopDown(column_paras(left_words(PageWords(p), x_threshold)))
              /\ IsTopDown(column_paras(right_words(PageWords(p), x_threshold)))
    /\ pc = "sc_pages" => records = SingleColumnRecordsOfPages(page)
    /\ pc = "sc_done" => ret.value = SingleColumnRecordsOfPages(Len(pdf))

\* C18 witness: a document of two pages that each hold Records in both
\* columns has been extracted, the four streams one after another
FourStreamsWitness ==
    /\ pc = "doc_done"
    /\ Len(pdf) = 2
    /\ \A p \in 1..2 : LeftStreamRecords(p) # <<>> /\ RightStreamRecords(p) # <<>>
    /\ LeftStreamRecords(1) # RightStreamRecords(1)
    /\ pdf[1] # pdf[2]
    /\ ret.value = LeftStreamRecords(1) \o RightStreamRecords(1)
                   \o LeftStreamRecords(2) \o RightStreamRecords(2)

(***************************************************************************)
(* SpecTwice: extract_cites called a second time on the same document      *)
(* with the same options.  The second call finds every variable as the     *)
(* first call left it; what a call starts from is what its own             *)
(* assignments make.                                                       *)
(***************************************************************************)
CT_RunAgain ==
    /\ pc \in {"doc_done", "sc_done"}
    /\ run = 1
    /\ run' = 2
    /\ first_run' = ret
    /\ ret' = NotReturned
    /\ pc' = "ct_call"
    /\ UNCHANGED <<variant, clusterVars, splitVars, records, docVars, twoVars,
                   honVars, paraVars, walkVars>>

NextTwice ==
    \/ NextCites
    \/ CT_RunAgain

SpecTwice == InitCites /\ [][NextTwice]_vars

\* s is the beginning of t
IsPrefix(s, t) == Len(s) <= Len(t) /\ s = SubSeq(t, 1, Len(s))

\* C20: a second run on the same pages, tokens, threshold and layout
\* returns the Record sequence of the first run; what the first run or an
\* earlier page left behind changes nothing: after every page of the second
\* run the Records are those the first run returned, up to that page.
SecondRunAgrees ==
    run = 2 =>
        /\ first_run.returned
        /\ pc # "doc_raised"
        /\ pc \in {"doc_done", "sc_done"} => ret = first_run
        /\ pc \in {"doc_pages", "doc_words", "sc_pages", "sc_walk", "sc_aff"}
              => IsPrefix(records, first_run.value)

\* C20 witness: the second run of a document of several pages has returned
\* the several Records of the first run
SecondRunWitness ==
    /\ run = 2
    /\ pc = "sc_done"
    /\ Len(pdf) >= 2
    /\ Len(ret.value) >= 2
    /\ ret = first_run

\* Line j of the input is the first Line of a Paragraph of the result
StartsParagraph(ps, j) ==
    \E k \in 1..Len(ps) : Len(ParagraphTexts(ps, k - 1)) + 1 = j

\* the gap between Line j - 1 and Line j is greater than the threshold
\* (the gap is kept doubled and the threshold times 2 * para_factor_den)
GapAboveThreshold(j) ==
    Diffs2(lines_with_y)[j - 1] * para_factor_den > para_result.thresh2den

\* C21: a Paragraph starts at Line j, j > 1, if and only if the midpoint gap
\* between Line j - 1 and Line j is strictly greater than the threshold: the
\* gaps inside a Paragraph are at most the threshold, the gaps across a
\* Paragraph boundary are greater, and a gap equal to the threshold does not
\* split.
ParagraphStartsIffGapExceeds ==
    (pc = "para_done" /\ para_result.has_gaps) =>
        /\ StartsParagraph(para_result.paras, 1)
        /\ \A j \in 2..Len(lines_with_y) :
             StartsParagraph(para_result.paras, j) <=> GapAboveThreshold(j)

\* C21 witness: the second of three gaps is greater than the other two and
\* equals the threshold, and the four Lines came back as one Paragraph
GapOnThresholdWitness ==
    /\ pc = "para_done"
    /\ Len(lines_with_y) = 4
    /\ Diffs2(lines_with_y)[2] > Diffs2(lines_with_y)[1]
    /\ Diffs2(lines_with_y)[2] * para_factor_den = para_result.thresh2den
    /\ ~StartsParagraph(para_result.paras, 3)
    /\ Len(para_result.paras) = 1

(***************************************************************************)
(* SpecText: the two clusterers on tokens whose texts tell them apart.     *)
(* The text of a word is the letter of its x0; the characters at the       *)
(* leftmost and at the rightmost x0 are spaces, the others letters, and     *)
(* any character may be bold.  Tops are close enough for tokens of         *)
(* different tops to share a Line.                                         *)
(***************************************************************************)
MaxTextTokens == 3

TextWords ==
    {Word(<<LineNames[x + 1]>>, x, y) : x \in 0..MaxX0, y \in 0..MaxWordTop}

TextChars ==
    {Char(IF x \in {0, MaxX0} THEN <<" ">> ELSE <<LineNames[x + 1]>>, x, y, b) :
        x \in 0..MaxX0, y \in 0..MaxWordTop, b \in BOOLEAN}

InitText ==
    /\ \/ pc = "cl_words"
          /\ stream \in UNION {[1..n -> TextWords] : n \in 0..MaxTextTokens}
       \/ pc = "cl_chars"
          /\ stream \in UNION {[1..n -> TextChars] : n \in 0..MaxTextTokens}
    /\ tolerance \in 0..1
    /\ clusters = <<>>
    /\ IdleSplit /\ IdleRun
    /\ variant = "engine"
    /\ IdleHon /\ IdlePara /\ IdleTwo /\ IdleDoc /\ IdleWalk /\ IdleOut

SpecText == InitText /\ [][NextCluster]_vars

\* the stream is one of characters
IsCharStream == stream # <<>> /\ "bold" \in DOMAIN stream[1]

\* the member tokens of Line c, as the clusterer left them
MembersByX0(c) == clusters[c].tokens

IsLeftToRight(ts) ==
    \A a \in 1..Len(ts) : \A b \in a..Len(ts) : ts[a].x0 <= ts[b].x0

HasBoldMember(c) ==
    \E j \in 1..Len(clusters[c].tokens) : clusters[c].tokens[j].bold

\* C22, as stated: the text of a Line is its member tokens in ascending x0
\* order, joined with one space for words and concatenated with no separator
\* for characters; a Line is bold if and only if one of its members is bold.
LineTextIsJoinOfMembers ==
    pc = "cl_done" =>
        /\ Len(lines_with_y) = Len(clusters)
        /\ \A c \in 1..Len(clusters) :
             /\ IsLeftToRight(MembersByX0(c))
             /\ IF IsCharStream
                THEN /\ lines_with_y[c].text
                           = JoinEmpty(Texts(MembersByX0(c)))
                     /\ lines_with_y[c].is_bold <=> HasBoldMember(c)
                ELSE lines_with_y[c].text = JoinSpace(Texts(MembersByX0(c)))

\* C22, amended: the text of a Line is its member tokens in ascending x0
\* order, joined with one space for words, and, for characters, concatenated
\* with no separator and then trimmed of leading and trailing white space;
\* a Line is bold if and only if one of its members is bold.
LineTextIsTrimmedJoinOfMembers ==
    pc = "cl_done" =>
        /\ Len(lines_with_y) = Len(clusters)
        /\ \A c \in 1..Len(clusters) :
             /\ IsLeftToRight(MembersByX0(c))
             /\ IF IsCharStream
                THEN /\ lines_with_y[c].text
                           = Strip(JoinEmpty(Texts(MembersByX0(c))))
                     /\ lines_with_y[c].is_bold <=> HasBoldMember(c)
                ELSE lines_with_y[c].text = JoinSpace(Texts(MembersByX0(c)))

\* C22 witness: a letter that is not bold, above and right of a bold space,
\* shares a Line with it; the space, the lower of the two, is the first
\* member, the Line is bold and its text is the letter alone
TrimmedLineWitness ==
    /\ pc = "cl_done"
    /\ IsCharStream
    /\ Len(stream) = 2
    /\ Len(clusters) = 1
    /\ clusters[1].tokens[1].text = <<" ">>
    /\ clusters[1].tokens[1].bold
    /\ clusters[1].tokens[1].top > clusters[1].tokens[2].top
    /\ clusters[1].tokens[1].x0 < clusters[1].tokens[2].x0
    /\ clusters[1].tokens[2].text # <<" ">>
    /\ ~clusters[1].tokens[2].bold
    /\ lines_with_y[1].text = clusters[1].tokens[2].text
    /\ lines_with_y[1].is_bold

(***************************************************************************)
(* SpecSingleFair: the single-column strategy, whose walk of a page takes  *)
(* a step whenever it can: the interpreter does not stop between two       *)
(* statements of the while loop.                                           *)
(***************************************************************************)
WalkNext ==
    \/ SC_Header
    \/ SC_Person
    \/ SC_Affiliation
    \/ SC_Emit
    \/ SC_Skip
    \/ SC_PageDone

SpecSingleFair == SpecSingle /\ WF_vars(WalkNext)

\* Line i is consumed as a Delegation header
ConsumesHeader ==
    /\ pc = "sc_walk" /\ pc' = "sc_walk"
    /\ IsBoldLine(lines, i)
    /\ records' = records

\* Line i is consumed as a name line
ConsumesName ==
    /\ pc = "sc_walk" /\ pc' = "sc_aff"
    /\ IsNameLineAt(lines, i)
    /\ current_delegation' = current_delegation
    /\ records' = records

\* Line i is consumed as an Affiliation line
ConsumesAffiliation ==
    /\ pc = "sc_aff" /\ pc' = "sc_aff"
    /\ IsPlainLine(lines, i)
    /\ Len(affiliation_lines') = Len(affiliation_lines) + 1
    /\ current_delegation' = current_delegation
    /\ records' = records

\* Line i is skipped
ConsumesSkipped ==
    /\ pc = "sc_walk" /\ pc' = "sc_walk"
    /\ ~IsBoldLine(lines, i)
    /\ ~IsNameLineAt(lines, i)
    /\ current_delegation' = current_delegation
    /\ records' = records

\* a step of the walk consumes Line i, in one of the four ways, and moves
\* to Line i + 1, or leaves a loop where it stands
WalkStep ==
    pc \in {"sc_walk", "sc_aff"} =>
        /\ lines' = lines
        /\ \/ /\ i <= Len(lines)
              /\ i' = i + 1
              /\ \/ ConsumesHeader
                 \/ ConsumesName
                 \/ ConsumesAffiliation
                 \/ ConsumesSkipped
           \/ /\ pc = "sc_aff" /\ pc' = "sc_walk"
              /\ i' = i
              /\ Len(records') = Len(records) + 1
           \/ /\ pc = "sc_walk" /\ pc' = "sc_pages"
              /\ i' = i
              /\ i = Len(lines) + 1

\* C23: the walk of a page terminates; the line index grows by one in every
\* iteration of the outer loop and of the affiliation loop; and every Line
\* is consumed once, as a Delegation header, a name line, an Affiliation
\* line or a skipped Line, the walk ending when the index has passed the
\* last Line.
WalkConsumesEveryLineOnce ==
    /\ [][WalkStep]_vars
    /\ [](pc \in {"sc_walk", "sc_aff"} => i \in 1..(Len(lines) + 1))
    /\ (pc \in {"sc_walk", "sc_aff"}) ~> (pc = "sc_pages")

\* C23 witness: a page of four Lines, a header, a name line, an Affiliation
\* line and a blank Line, has been walked to its end with one Record
FourKindsWalkedWitness ==
    /\ pc = "sc_walk"
    /\ Len(lines) = 4
    /\ i = 5
    /\ IsBoldLine(lines, 1)
    /\ IsNameLineAt(lines, 2)
    /\ IsPlainLine(lines, 3)
    /\ lines[4].text = <<>>
    /\ Len(records) = 1

\* C24: with two Lines or more, a gap that is not greater than the gap at
\* index floor(g / 2) of the g gaps in ascending order never splits, so that
\* n Lines give at most ceil((n - 1) / 2) Paragraphs, and two Lines or three
\* Lines always give one Paragraph, whatever their gaps.
NoSplitUpToMedian ==
    (pc = "para_done" /\ para_result.has_gaps) =>
        LET gaps == Diffs2(lines_with_y)
            n == Len(lines_with_y)
        IN  /\ \A j \in 1..Len(gaps) : gaps[j] > 0
            /\ \A j \in 2..n :
                 (\E m \in 1..Len(gaps) :
                     /\ IsGapOfRank(gaps, gaps[m], Len(gaps) \div 2)
                     /\ gaps[j - 1] <= gaps[m])
                 => ~StartsParagraph(para_result.paras, j)
            /\ 2 * Len(para_result.paras) <= n
            /\ n \in {2, 3} => Len(para_result.paras) = 1

\* C24 witness: of three Lines the second gap is more than the paragraph
\* factor times the first, and they came back as one Paragraph
UnequalGapsOneParagraphWitness ==
    /\ pc = "para_done"
    /\ Len(lines_with_y) = 3
    /\ Diffs2(lines_with_y)[2] * para_factor_den
          > Diffs2(lines_with_y)[1] * para_factor_num
    /\ Len(para_result.paras) = 1
    /\ Len(para_result.paras[1].lines) = 3

====
